---- MODULE Spec2Model ----
(***************************************************************************)
(* State-machine model of the ASCII dungeon crawler (src/project.py).      *)
(*                                                                         *)
(* The state is what main() keeps between two commands: the grid, the      *)
(* player, the level index, the fled flag (run_away), the play-time        *)
(* bookkeeping, the in-memory best record, and the two files game.json and *)
(* highscores.json.  One action models one command of the dispatch loop,   *)
(* with every nested prompt answered inside the action.                    *)
(*                                                                         *)
(* Conventions.  Coordinates are 0-based as in the source; the tile at     *)
(* (x, y) is grid[y+1][x+1].  Python's None is the record None.  The log   *)
(* and the symbols' colours are display output only and are not modelled.  *)
(* Item.item_picked_up is written by on_pickup and read only by the caller *)
(* straight after, so it is modelled as on_pickup's result, not as a field.*)
(* engage_chance is kept in hundredths (0.2 is 20).  Times are whole clock *)
(* ticks.                                                                  *)
(***************************************************************************)
EXTENDS Integers, Sequences, FiniteSets, TLC

VARIABLES
    grid,                   \* list[list[Tile]] of main()
    player,                 \* the Player object
    level_index,            \* 1-based index into LEVELS
    run_away,               \* main()'s fled flag
    accumulated_play_time,  \* play time carried in from a loaded save
    elapsed,                \* time.monotonic() - session_start
    current_play_time,      \* the play time handle_save holds while its prompt waits
    prompt,                 \* the input() the program waits at, inside which handler
    best,                   \* the best record read by load_best() at start
    status,                 \* "playing", or how the command loop ended
    levels,                 \* the level source: LEVELS, a list of map texts
    default_hp,             \* Enemy.__init__'s default hp, drawn once at import
    saveFile,               \* contents of game.json
    bestFile                \* contents of highscores.json

vars == <<grid, player, level_index, run_away, accumulated_play_time, elapsed, current_play_time,
          prompt,
          best, status, levels, default_hp, saveFile, bestFile>>

-----------------------------------------------------------------------------
(* Bounds of the model *)

\* enemy hit points are drawn from the first MaxHpSpread+1 values of their range
MaxHpSpread == 0
\* a treasure chest's weapon is drawn from the first MaxChestWeapons weapon kinds
MaxChestWeapons == 1
\* the clock stops ticking once the current play time reaches MaxClock
MaxClock == 2

-----------------------------------------------------------------------------
(* Program constants *)

MAX_INVENTORY == 5
MAX_HP == 20

-----------------------------------------------------------------------------
(* Small helpers *)

None == [type |-> "None"]

Min(a, b) == IF a < b THEN a ELSE b
Max(a, b) == IF a > b THEN a ELSE b
Abs(a) == IF a < 0 THEN -a ELSE a

\* list.pop(index) with a 1-based index
RemoveAt(s, i) == SubSeq(s, 1, i - 1) \o SubSeq(s, i + 1, Len(s))

\* dict.get(key, default)
Get(d, k, default) == IF k \in DOMAIN d THEN d[k] ELSE default

\* random.randint(low, high)
randint(low, high) == low..high

-----------------------------------------------------------------------------
(* Items *)

Gold(amount) == [type |-> "Gold", name |-> "Gold", amount |-> amount]
Potion == [type |-> "Potion", name |-> "Potion"]
Weapon(name, attack_low, attack_high) ==
    [type |-> name, name |-> name, attack_low |-> attack_low, attack_high |-> attack_high]
Dagger == Weapon("Dagger", 2, 3)
Sword == Weapon("Sword", 3, 4)
Axe == Weapon("Axe", 5, 6)

WeaponTypes == {"Dagger", "Sword", "Axe"}
IsWeapon(item) == item.type \in WeaponTypes

\* Weapon.get_attack: the set of values the roll can take
get_attack(weapon) == randint(weapon.attack_low, weapon.attack_high)

-----------------------------------------------------------------------------
(* Enemies *)

Enemy(type, hp, low, high, item_drop, engage_chance) ==
    [type |-> type, name |-> "monster", symbol |-> "E", x |-> 0, y |-> 0, hp |-> hp,
     attack_damage_low |-> low, attack_damage_high |-> high,
     item_drop |-> item_drop, can_move |-> TRUE, engage_chance |-> engage_chance]

\* the hit points a constructor can draw from randint(low, high), within the bound
HpChoices(low, high) == low..Min(high, low + MaxHpSpread)

\* the frozen default of Enemy.__init__'s hp parameter
DefaultHpChoices == HpChoices(4, 10)

\* ENEMY_TYPES.get(type, Enemy)(): the instances the constructor of a type can build
EnemyDefaults(type, dhp) ==
    CASE type = "EnemyWithItem" ->
            {Enemy("EnemyWithItem", dhp, 1, 3, <<Potion>>, 20)}
      [] type = "EnemyLevelTwo" ->
            {Enemy("EnemyLevelTwo", h, 3, 5, <<>>, 40) : h \in HpChoices(10, 20)}
      [] type = "EnemyLevelTwoWithItem" ->
            {Enemy("EnemyLevelTwoWithItem", h, 3, 5, <<Potion>>, 40) : h \in HpChoices(10, 20)}
      [] type = "EnemyLevelThree" ->
            {Enemy("EnemyLevelThree", h, 5, 10, <<>>, 70) : h \in HpChoices(20, 25)}
      [] type = "EnemyLevelThreeWithItem" ->
            {Enemy("EnemyLevelThreeWithItem", h, 5, 10, <<Potion>>, 70) : h \in HpChoices(20, 25)}
      [] OTHER ->
            {Enemy("Enemy", dhp, 1, 3, <<>>, 20)}

\* Enemy.get_attack_damage: the set of values the roll can take
get_attack_damage(enemy) == randint(enemy.attack_damage_low, enemy.attack_damage_high)

\* Enemy.attack: the player after each possible roll (hp <= 0 raises GameOver)
attack(enemy, p) == {[p EXCEPT !.hp = p.hp - d] : d \in get_attack_damage(enemy)}

-----------------------------------------------------------------------------
(* Tiles *)

WallTile == [type |-> "WallTile", symbol |-> "#", walkable |-> FALSE,
             item |-> None, enemy |-> None]
FloorTile == [type |-> "FloorTile", symbol |-> ".", walkable |-> TRUE,
              item |-> None, enemy |-> None]
ExitTile == [type |-> "ExitTile", symbol |-> "X", walkable |-> FALSE,
             item |-> None, enemy |-> None]

ChestWeapons == SubSeq(<<Dagger, Sword, Axe>>, 1, Min(3, MaxChestWeapons))

\* TreasureChestTile(): one randomly picked weapon and one potion
TreasureChestTile ==
    {[type |-> "TreasureChestTile", symbol |-> "T", walkable |-> TRUE,
      item |-> None, enemy |-> None, treasure |-> <<ChestWeapons[i], Potion>>]
        : i \in 1..Len(ChestWeapons)}

-----------------------------------------------------------------------------
(* Player *)

Player(x, y) == [x |-> x, y |-> y, hp |-> MAX_HP, gold |-> 0, weapon |-> None,
                 inventory |-> <<>>, at_exit |-> FALSE, MAX_HP |-> MAX_HP]

-----------------------------------------------------------------------------
(* Grid *)

TileAt(g, x, y) == g[y + 1][x + 1]
SetTile(g, x, y, t) == [g EXCEPT ![y + 1][x + 1] = t]

\* every coordinate that holds a tile
Cells(g) == UNION {{<<x, y>> : x \in 0..(Len(g[y + 1]) - 1)} : y \in 0..(Len(g) - 1)}

in_bounds(g, x, y) == 0 <= y /\ y < Len(g) /\ 0 <= x /\ x < Len(g[1])

enemies_remaining(g) == Cardinality({c \in Cells(g) : TileAt(g, c[1], c[2]).enemy # None})

\* list_enemies as the set of its (x, y, enemy) entries
list_enemies(g) ==
    {<<c[1], c[2], TileAt(g, c[1], c[2]).enemy>> :
        c \in {c \in Cells(g) : TileAt(g, c[1], c[2]).enemy # None}}

\* faulty variant of is_blocked_for_enemy: an item does not block the cell
is_blocked_for_enemyNoItem(g, x, y) ==
    IF ~in_bounds(g, x, y) THEN TRUE
    ELSE LET tile == TileAt(g, x, y) IN
         \/ ~tile.walkable
         \/ tile.enemy # None
         \/ tile.type = "TreasureChestTile"

is_blocked_for_enemy(g, x, y) ==
    IF ~in_bounds(g, x, y) THEN TRUE
    ELSE LET tile == TileAt(g, x, y) IN
         \/ ~tile.walkable
         \/ tile.enemy # None
         \/ tile.item # None
         \/ tile.type = "TreasureChestTile"

surrounding_tiles(x, y) == <<<<x, y - 1>>, <<x, y + 1>>, <<x - 1, y>>, <<x + 1, y>>>>

-----------------------------------------------------------------------------
(* Building a level from map text.  A map text is a list of rows, each a   *)
(* list of one-character strings.                                          *)

\* the tile make_map builds for one character at (x, y): every outcome of its draws
MakeTile(character, x, y, level, dhp) ==
    CASE character = "#" -> {WallTile}
      [] character = "T" -> TreasureChestTile
      [] character = "X" -> {ExitTile}
      [] character = "$" -> {[FloorTile EXCEPT !.item = Gold(1)]}
      [] character = "p" -> {[FloorTile EXCEPT !.item = Potion]}
      [] character = "E" ->
            LET types == CASE level = 1 -> {"Enemy", "EnemyWithItem"}
                           [] level = 2 -> {"EnemyLevelTwo", "EnemyLevelTwoWithItem"}
                           [] OTHER -> {"EnemyLevelThree", "EnemyLevelThreeWithItem"}
            IN {[FloorTile EXCEPT !.enemy = [e EXCEPT !.x = x, !.y = y]] :
                    e \in UNION {EnemyDefaults(t, dhp) : t \in types}}
      [] OTHER -> {FloorTile}

RECURSIVE MakeRow(_, _, _, _, _)
MakeRow(row, i, y, level, dhp) ==
    IF i > Len(row) THEN {<<>>}
    ELSE {<<t>> \o rest : t \in MakeTile(row[i], i - 1, y, level, dhp),
                          rest \in MakeRow(row, i + 1, y, level, dhp)}

RECURSIVE MakeRows(_, _, _, _)
MakeRows(map_text, j, level, dhp) ==
    IF j > Len(map_text) THEN {<<>>}
    ELSE {<<r>> \o rest : r \in MakeRow(map_text[j], 1, j - 1, level, dhp),
                          rest \in MakeRows(map_text, j + 1, level, dhp)}

\* make_map: the grids it can build
make_map(map_text, level, dhp) == MakeRows(map_text, 1, level, dhp)

\* find_player: the first "@" in reading order, as <<x, y>>
find_player(map_rows) ==
    LET hits == {<<x, y>> \in Cells(map_rows) : map_rows[y + 1][x + 1] = "@"}
    IN CHOOSE h \in hits : \A o \in hits : h[2] < o[2] \/ (h[2] = o[2] /\ h[1] <= o[1])

\* load_level: the <<grid, start_x, start_y>> triples it can return
load_level(map_text, level, dhp) ==
    {<<g, find_player(map_text)[1], find_player(map_text)[2]>> :
        g \in make_map(map_text, level, dhp)}

-----------------------------------------------------------------------------
(* Enemy scheduling.  A pass state is the grid, the player, the cells       *)
(* reserved so far and whether GameOver was raised.                         *)

\* faulty variant of Defeated: a player left with exactly 0 hp plays on
DefeatedBelowZero(p) == p.hp < 0

\* the raise of GameOver at the end of Enemy.attack
Defeated(p) == p.hp <= 0

\* faulty variant of Relocate: the cell the enemy leaves keeps it
RelocateCopy(g, e, nx, ny) ==
    SetTile(g, nx, ny, [TileAt(g, nx, ny) EXCEPT !.enemy = [e[3] EXCEPT !.x = nx, !.y = ny]])

\* the enemy of entry e moved onto (nx, ny)
Relocate(g, e, nx, ny) ==
    LET cleared == SetTile(g, e[1], e[2], [TileAt(g, e[1], e[2]) EXCEPT !.enemy = None])
    IN SetTile(cleared, nx, ny,
               [TileAt(cleared, nx, ny) EXCEPT !.enemy = [e[3] EXCEPT !.x = nx, !.y = ny]])

\* one iteration of move_enemies' loop, for entry e = <<x, y, enemy>>
EnemyStep(e, st) ==
    LET x == e[1]
        y == e[2]
        enemy == e[3]
        p == st.player
        g == st.grid
    IN
    IF TileAt(g, x, y).enemy # enemy THEN {st}
    ELSE IF ~enemy.can_move THEN {st}
    ELSE IF x = p.x /\ y = p.y THEN {st}
    ELSE IF Abs(x - p.x) + Abs(y - p.y) = 1 THEN
        IF <<p.x, p.y>> \in st.reserved THEN {st}
        ELSE
            \* random.random() < engage_chance
            (IF enemy.engage_chance > 0
             THEN {[grid |-> Relocate(g, e, p.x, p.y),
                    player |-> p2,
                    reserved |-> st.reserved \cup {<<p.x, p.y>>},
                    over |-> Defeated(p2)] : p2 \in attack(enemy, p)}
             ELSE {})
            \cup
            (IF enemy.engage_chance < 100 THEN {st} ELSE {})
    ELSE
        LET around == surrounding_tiles(x, y)
            possible_tiles == {around[i] : i \in {i \in 1..4 :
                                  /\ ~is_blocked_for_enemy(g, around[i][1], around[i][2])
                                  /\ around[i] \notin st.reserved}}
        IN IF possible_tiles = {} THEN {st}
           ELSE {[st EXCEPT !.grid = Relocate(g, e, n[1], n[2]),
                            !.reserved = st.reserved \cup {n}] : n \in possible_tiles}

\* the rest of a pass over the entries still to evaluate, in every shuffled order
RECURSIVE MovePass(_, _)
MovePass(todo, st) ==
    IF todo = {} \/ st.over THEN {st}
    ELSE UNION {UNION {MovePass(todo \ {e}, s2) : s2 \in EnemyStep(e, st)} : e \in todo}

\* move_enemies: every <<grid, player, over>> outcome of one pass
move_enemies(g, p) ==
    {[grid |-> s.grid, player |-> s.player, over |-> s.over] :
        s \in MovePass(list_enemies(g), [grid |-> g, player |-> p, reserved |-> {}, over |-> FALSE])}

-----------------------------------------------------------------------------
(* Item behaviour *)

\* faulty variant of on_pickup: the capacity test lets a sixth item in
on_pickupOverfull(item, p) ==
    IF item.type = "Gold"
    THEN [player |-> [p EXCEPT !.gold = p.gold + item.amount], item_picked_up |-> TRUE]
    ELSE IF Len(p.inventory) <= MAX_INVENTORY
         THEN [player |-> [p EXCEPT !.inventory = Append(p.inventory, item)],
               item_picked_up |-> TRUE]
         ELSE [player |-> p, item_picked_up |-> FALSE]

\* faulty variant of on_pickup: gold too is refused by a full inventory
on_pickupGoldCapped(item, p) ==
    IF Len(p.inventory) < MAX_INVENTORY
    THEN IF item.type = "Gold"
         THEN [player |-> [p EXCEPT !.gold = p.gold + item.amount], item_picked_up |-> TRUE]
         ELSE [player |-> [p EXCEPT !.inventory = Append(p.inventory, item)],
               item_picked_up |-> TRUE]
    ELSE [player |-> p, item_picked_up |-> FALSE]

\* Item.on_pickup: the player afterwards and the item_picked_up flag it leaves
on_pickup(item, p) ==
    IF item.type = "Gold"
    THEN [player |-> [p EXCEPT !.gold = p.gold + item.amount], item_picked_up |-> TRUE]
    ELSE IF Len(p.inventory) < MAX_INVENTORY
         THEN [player |-> [p EXCEPT !.inventory = Append(p.inventory, item)],
               item_picked_up |-> TRUE]
         ELSE [player |-> p, item_picked_up |-> FALSE]

\* Potion.on_use: the players it can leave, one per heal roll
PotionOnUse(p) ==
    IF p.hp = p.MAX_HP THEN {p}
    ELSE {[p EXCEPT !.hp = Min(p.hp + number, p.MAX_HP)] : number \in randint(3, p.MAX_HP)}

\* faulty variant of WeaponOnUse: the weapon equipped before is dropped
WeaponOnUseDiscard(item, p) == [p EXCEPT !.weapon = item]

\* Weapon.on_use: equip, the weapon equipped before goes to the end of the inventory
WeaponOnUse(item, p) ==
    [p EXCEPT !.weapon = item,
              !.inventory = IF p.weapon # None THEN Append(p.inventory, p.weapon)
                            ELSE p.inventory]

\* Item.on_use dispatched on the item's class
on_use(item, p) ==
    CASE item.type = "Potion" -> PotionOnUse(p)
      [] IsWeapon(item) -> {WeaponOnUse(item, p)}
      [] OTHER -> {p}

-----------------------------------------------------------------------------
(* Tile behaviour *)

\* faulty variant of on_enter: the Exit tile does not look at the enemies left
on_enterAnyway(tile, p, g) ==
    IF tile.type = "ExitTile"
    THEN [p EXCEPT !.at_exit = TRUE]
    ELSE p

\* ExitTile.on_enter; the other tiles' on_enter only write to the log
on_enter(tile, p, g) ==
    IF tile.type = "ExitTile" /\ enemies_remaining(g) = 0
    THEN [p EXCEPT !.at_exit = TRUE]
    ELSE p

\* str.lower on the names the items carry
lower(name) ==
    CASE name = "Gold" -> "gold"
      [] name = "Potion" -> "potion"
      [] name = "Dagger" -> "dagger"
      [] name = "Sword" -> "sword"
      [] name = "Axe" -> "axe"
      [] OTHER -> name

\* a line of the log: its fixed text, and the name and the count formatted into it
LogLine(text, name, count) == [text |-> text, name |-> name, count |-> count]

\* the lines on_enter of the tile appends to the log
on_enter_log(tile, g) ==
    CASE tile.type = "WallTile" -> <<LogLine("You bump into a wall.", "", 0)>>
      [] tile.type = "FloorTile" ->
            IF tile.item # None
            THEN <<LogLine("You find a {}. Press [T] to take.", lower(tile.item.name), 0)>>
            ELSE IF tile.enemy # None
            THEN <<LogLine("There is a {} in your way. Press [F] to fight. Press [R] to run away.",
                           tile.enemy.name, 0)>>
            ELSE <<>>
      [] tile.type = "TreasureChestTile" ->
            IF tile.treasure # <<>>
            THEN <<LogLine("You find a treasure chest. Press [T] to open.", "", 0)>>
            ELSE <<LogLine("You find an empty treasure chest.", "", 0)>>
      [] tile.type = "ExitTile" ->
            IF enemies_remaining(g) > 0
            THEN <<LogLine("The exit is sealed by magic. {} enemy(ies) remain.", "",
                           enemies_remaining(g))>>
            ELSE <<>>

\* faulty variant of FloorOnInteract: the item leaves the tile even when refused
FloorOnInteractAlways(tile, p) ==
    IF tile.item # None
    THEN <<[tile EXCEPT !.item = None], on_pickup(tile.item, p).player>>
    ELSE <<tile, p>>

\* FloorTile.on_interact: <<tile, player>> afterwards
FloorOnInteract(tile, p) ==
    IF tile.item # None
    THEN LET r == on_pickup(tile.item, p)
         IN <<IF r.item_picked_up THEN [tile EXCEPT !.item = None] ELSE tile, r.player>>
    ELSE <<tile, p>>

\* the input() of main() at line 1614, where a command is read
NoPrompt == [at |-> "command"]

\* the read_int of TreasureChestTile.on_interact (line 430) on the player's tile
ChestPrompt == [at |-> "chest"]

\* the prompt on_interact goes to with this treasure left: the while loop
\* ends when the chest is empty
ChestNext(treasure) == IF treasure = <<>> THEN NoPrompt ELSE ChestPrompt

\* one pass of the loop of on_interact for the number typed, 0 being Back:
\* the treasure and the player afterwards, and the prompt that follows; an
\* item that is not picked up ends the loop
on_interact(treasure, p, choice) ==
    IF choice = 0 THEN <<treasure, p, NoPrompt>>
    ELSE LET r == on_pickup(treasure[choice], p)
         IN IF r.item_picked_up
            THEN <<RemoveAt(treasure, choice), r.player, ChestNext(RemoveAt(treasure, choice))>>
            ELSE <<treasure, r.player, NoPrompt>>

\* handle_picking_up_items up to the first input() it reaches: the tile and
\* the player, and the prompt the program waits at next; a chest that holds
\* something changes nothing before its read_int
handle_picking_up_items(tile, p) ==
    CASE tile.type = "TreasureChestTile" -> <<tile, p, ChestNext(tile.treasure)>>
      [] tile.type = "FloorTile" ->
            <<FloorOnInteract(tile, p)[1], FloorOnInteract(tile, p)[2], NoPrompt>>
      [] OTHER -> <<tile, p, NoPrompt>>

-----------------------------------------------------------------------------
(* Combat *)

\* the loop of take_damage that makes every Exit tile walkable
OpenExits(g) ==
    [y \in DOMAIN g |-> [x \in DOMAIN g[y] |->
        IF g[y][x].type = "ExitTile" THEN [g[y][x] EXCEPT !.walkable = TRUE]
        ELSE g[y][x]]]

\* faulty variant of UnlockExits: opens the exits while one enemy is still alive
UnlockExitsEarly(g) ==
    IF enemies_remaining(g) <= 1 THEN OpenExits(g) ELSE g

\* the exit-unlock step of take_damage, run after the enemy left its tile
UnlockExits(g) ==
    IF enemies_remaining(g) = 0 THEN OpenExits(g) ELSE g

\* the inventory after the swap of take_damage (lines 576-590): the loop that
\* prints the inventory rebinds the name item, so what is appended after the
\* pop is the inventory's last entry as it was before the pop
SwapDrop(inventory, item, choice) ==
    Append(RemoveAt(inventory, choice), inventory[Len(inventory)])

\* what can be typed at the prompts of a drop at capacity: "n", or "y" and
\* then a number, 0 being Back
DropAnswers(inventory) ==
    {[command |-> "n", choice |-> 0]}
    \cup {[command |-> "y", choice |-> c] : c \in 0..Len(inventory)}

\* the inventory after one drop at capacity answered with answer
DropAtCapacity(inventory, item, answer) ==
    IF answer.command = "y" /\ answer.choice > 0
    THEN SwapDrop(inventory, item, answer.choice)
    ELSE inventory

\* faulty variant of DropLoop: a drop taken with room goes to the front
RECURSIVE DropLoopFront(_, _)
DropLoopFront(item_drop, inventory) ==
    IF item_drop = <<>> THEN {inventory}
    ELSE IF Len(inventory) < MAX_INVENTORY
         THEN DropLoopFront(Tail(item_drop), <<Head(item_drop)>> \o inventory)
         ELSE UNION {IF answer.command = "y" /\ answer.choice = 0
                     THEN {inventory}
                     ELSE DropLoopFront(Tail(item_drop),
                                        DropAtCapacity(inventory, Head(item_drop), answer))
                        : answer \in DropAnswers(inventory)}

\* the drop loop of take_damage: every inventory it can end with, over the
\* answers typed at its prompts; "y" and Back makes take_damage return
RECURSIVE DropLoop(_, _)
DropLoop(item_drop, inventory) ==
    IF item_drop = <<>> THEN {inventory}
    ELSE IF Len(inventory) < MAX_INVENTORY
         THEN DropLoop(Tail(item_drop), Append(inventory, Head(item_drop)))
         ELSE UNION {IF answer.command = "y" /\ answer.choice = 0
                     THEN {inventory}
                     ELSE DropLoop(Tail(item_drop),
                                   DropAtCapacity(inventory, Head(item_drop), answer))
                        : answer \in DropAnswers(inventory)}

\* the drop loop of take_damage up to its first input(): the drops that find
\* room are appended, and the loop waits at the first one that does not
RECURSIVE DropUntilWait(_, _)
DropUntilWait(item_drop, inventory) ==
    IF item_drop = <<>> \/ Len(inventory) >= MAX_INVENTORY
    THEN <<inventory, item_drop>>
    ELSE DropUntilWait(Tail(item_drop), Append(inventory, Head(item_drop)))

\* the prompt take_damage waits at with these drops still to hand out, the
\* first of them the one asked about: "remove an item? (y/n)" of line 569
DropPrompt(item_drop) ==
    IF item_drop = <<>> THEN NoPrompt ELSE [at |-> "remove", item_drop |-> item_drop]

\* faulty variant of take_damage: an enemy brought to exactly 0 hp stays on its tile
take_damageLenient(amount, p, g, x, y) ==
    LET tile == TileAt(g, x, y)
        enemy == tile.enemy
        hp == enemy.hp - amount
    IN IF hp >= 0
       THEN {<<SetTile(g, x, y, [tile EXCEPT !.enemy = [enemy EXCEPT !.hp = hp]]), p>>}
       ELSE LET g2 == UnlockExits(SetTile(g, x, y, [tile EXCEPT !.enemy = None]))
            IN {<<g2, [p EXCEPT !.inventory = inv]>> : inv \in DropLoop(enemy.item_drop, p.inventory)}

\* Enemy.take_damage of the enemy on tile (x, y): every <<grid, player>> outcome
take_damage(amount, p, g, x, y) ==
    LET tile == TileAt(g, x, y)
        enemy == tile.enemy
        hp == enemy.hp - amount
    IN IF hp > 0
       THEN {<<SetTile(g, x, y, [tile EXCEPT !.enemy = [enemy EXCEPT !.hp = hp]]), p>>}
       ELSE LET g2 == UnlockExits(SetTile(g, x, y, [tile EXCEPT !.enemy = None]))
            IN {<<g2, [p EXCEPT !.inventory = inv]>> : inv \in DropLoop(enemy.item_drop, p.inventory)}

\* faulty variant of PlayerDamage: the equipped weapon is ignored
PlayerDamageUnarmed(p) == randint(1, 2)

\* the player's attack roll of the fight command
PlayerDamage(p) == IF p.weapon # None THEN get_attack(p.weapon) ELSE randint(1, 2)

-----------------------------------------------------------------------------
(* Persistence.  A JSON object is a record, JSON null is None, a JSON list  *)
(* is a sequence.  A number whose JSON type the loader tests (play_time,    *)
(* best_time) is carried as Num(n).  A file is [kind, data]: kind "absent"  *)
(* (no file), "garbage" (not JSON), "list" (JSON, not an object) or "dict". *)

Num(n) == [type |-> "Num", v |-> n]

\* the ValueError raised by item_from_dict, carried in the item's place
Raised == [type |-> "ValueError"]

NoFile == [kind |-> "absent", data |-> None]

\* the keys of ITEM_TYPES, ENEMY_TYPES and TILE_TYPES
KnownItemTypes == {"Gold", "Potion", "Dagger", "Sword", "Axe"}
KnownEnemyTypes == {"Enemy", "EnemyWithItem", "EnemyLevelTwo", "EnemyLevelTwoWithItem",
                    "EnemyLevelThree", "EnemyLevelThreeWithItem"}
KnownTileTypes == {"WallTile", "FloorTile", "TreasureChestTile", "ExitTile"}

item_to_dict(item) ==
    IF item = None THEN None
    ELSE IF item.type = "Gold" THEN [type |-> item.type, amount |-> item.amount]
    ELSE IF item.type = "Potion" THEN [type |-> item.type]
    ELSE [type |-> item.type, name |-> item.name,
          attack_low |-> item.attack_low, attack_high |-> item.attack_high]

item_from_dict(dictionary) ==
    IF dictionary = None THEN None
    ELSE CASE dictionary.type = "Gold" -> Gold(Get(dictionary, "amount", 1))
           [] dictionary.type = "Potion" -> Potion
           [] dictionary.type = "Dagger" -> Dagger
           [] dictionary.type = "Sword" -> Sword
           [] dictionary.type = "Axe" -> Axe
           [] OTHER -> Raised

\* a list of items to and from its list of documents
items_to_dicts(items) == [i \in DOMAIN items |-> item_to_dict(items[i])]
items_from_dicts(dicts) == [i \in DOMAIN dicts |-> item_from_dict(dicts[i])]

enemy_to_dict(enemy) ==
    IF enemy = None THEN None
    ELSE [type |-> enemy.type, name |-> enemy.name, symbol |-> enemy.symbol,
          x |-> enemy.x, y |-> enemy.y, hp |-> enemy.hp,
          attack_damage_low |-> enemy.attack_damage_low,
          attack_damage_high |-> enemy.attack_damage_high,
          can_move |-> enemy.can_move, engage_chance |-> enemy.engage_chance,
          item_drop |-> items_to_dicts(enemy.item_drop)]

\* faulty variant of enemy_from_dict: the enemy comes back with the hp of a new one
enemy_from_dictFresh(dictionary, dhp) ==
    IF dictionary = None THEN {None}
    ELSE {[type |-> enemy.type,
           name |-> Get(dictionary, "name", enemy.name),
           symbol |-> Get(dictionary, "symbol", enemy.symbol),
           x |-> Get(dictionary, "x", enemy.x),
           y |-> Get(dictionary, "y", enemy.y),
           hp |-> enemy.hp,
           attack_damage_low |-> Get(dictionary, "attack_damage_low", enemy.attack_damage_low),
           attack_damage_high |-> Get(dictionary, "attack_damage_high", enemy.attack_damage_high),
           item_drop |-> items_from_dicts(Get(dictionary, "item_drop", <<>>)),
           can_move |-> Get(dictionary, "can_move", enemy.can_move),
           engage_chance |-> Get(dictionary, "engage_chance", enemy.engage_chance)]
            : enemy \in EnemyDefaults(dictionary.type, dhp)}

\* enemy_from_dict: a default instance of the tagged class, then the document's fields
enemy_from_dict(dictionary, dhp) ==
    IF dictionary = None THEN {None}
    ELSE {[type |-> enemy.type,
           name |-> Get(dictionary, "name", enemy.name),
           symbol |-> Get(dictionary, "symbol", enemy.symbol),
           x |-> Get(dictionary, "x", enemy.x),
           y |-> Get(dictionary, "y", enemy.y),
           hp |-> Get(dictionary, "hp", enemy.hp),
           attack_damage_low |-> Get(dictionary, "attack_damage_low", enemy.attack_damage_low),
           attack_damage_high |-> Get(dictionary, "attack_damage_high", enemy.attack_damage_high),
           item_drop |-> items_from_dicts(Get(dictionary, "item_drop", <<>>)),
           can_move |-> Get(dictionary, "can_move", enemy.can_move),
           engage_chance |-> Get(dictionary, "engage_chance", enemy.engage_chance)]
            : enemy \in EnemyDefaults(dictionary.type, dhp)}

\* tile_to_dict: a chest's treasure list is not among the fields written
tile_to_dict(tile) ==
    [type |-> tile.type, symbol |-> tile.symbol, walkable |-> tile.walkable,
     item |-> item_to_dict(tile.item), enemy |-> enemy_to_dict(tile.enemy)]

\* faulty variant of TileDefaults: a tile of unknown type comes back as a wall
TileDefaultsWall(type) ==
    CASE type = "FloorTile" -> {FloorTile}
      [] type = "TreasureChestTile" -> TreasureChestTile
      [] type = "ExitTile" -> {ExitTile}
      [] OTHER -> {WallTile}

\* TILE_TYPES.get(type, FloorTile)(): the instances the constructor can build
TileDefaults(type) ==
    CASE type = "WallTile" -> {WallTile}
      [] type = "TreasureChestTile" -> TreasureChestTile
      [] type = "ExitTile" -> {ExitTile}
      [] OTHER -> {FloorTile}

tile_from_dict(dictionary, dhp) ==
    {[tile EXCEPT !.symbol = Get(dictionary, "symbol", tile.symbol),
                  !.walkable = dictionary.walkable,
                  !.item = item_from_dict(Get(dictionary, "item", None)),
                  !.enemy = enemy]
        : tile \in TileDefaults(dictionary.type),
          enemy \in enemy_from_dict(Get(dictionary, "enemy", None), dhp)}

player_to_dict(p) ==
    [x |-> p.x, y |-> p.y, hp |-> p.hp, gold |-> p.gold, at_exit |-> p.at_exit,
     MAX_HP |-> p.MAX_HP, weapon |-> item_to_dict(p.weapon),
     inventory |-> items_to_dicts(p.inventory)]

\* player_from_dict: Player() first, then the document's fields
player_from_dict(dictionary) ==
    LET p == Player(0, 0)
    IN [x |-> Get(dictionary, "x", p.x),
        y |-> Get(dictionary, "y", p.y),
        hp |-> Get(dictionary, "hp", p.hp),
        gold |-> Get(dictionary, "gold", p.gold),
        at_exit |-> Get(dictionary, "at_exit", FALSE),
        MAX_HP |-> Get(dictionary, "MAX_HP", MAX_HP),
        weapon |-> item_from_dict(Get(dictionary, "weapon", None)),
        inventory |-> items_from_dicts(Get(dictionary, "inventory", <<>>))]

grid_to_dict(g) ==
    [rows |-> Len(g),
     columns |-> IF g # <<>> THEN Len(g[1]) ELSE 0,
     tiles |-> [y \in DOMAIN g |-> [x \in DOMAIN g[y] |-> tile_to_dict(g[y][x])]]]

RECURSIVE RowFromDicts(_, _, _)
RowFromDicts(row, i, dhp) ==
    IF i > Len(row) THEN {<<>>}
    ELSE {<<t>> \o rest : t \in tile_from_dict(row[i], dhp), rest \in RowFromDicts(row, i + 1, dhp)}

RECURSIVE RowsFromDicts(_, _, _)
RowsFromDicts(tiles, j, dhp) ==
    IF j > Len(tiles) THEN {<<>>}
    ELSE {<<r>> \o rest : r \in RowFromDicts(tiles[j], 1, dhp), rest \in RowsFromDicts(tiles, j + 1, dhp)}

\* grid_from_dict: the grids it can build
grid_from_dict(dictionary, dhp) == RowsFromDicts(dictionary.tiles, 1, dhp)

\* the document save_game writes
save_game(g, p, lvl, play_time) ==
    [kind |-> "dict",
     data |-> [version |-> 1, level_index |-> lvl, player |-> player_to_dict(p),
               grid |-> grid_to_dict(g), play_time |-> Num(play_time)]]

validate_save(file) ==
    /\ file.kind = "dict"
    /\ {"player", "grid", "level_index"} \subseteq DOMAIN file.data
    /\ LET pl == file.data.player
       IN 0 <= Get(pl, "hp", 0) /\ Get(pl, "hp", 0) <= Get(pl, "MAX_HP", 15)
    /\ {"rows", "columns"} \subseteq DOMAIN file.data.grid
    /\ file.data.grid.rows > 0 /\ file.data.grid.columns > 0
    /\ ("play_time" \in DOMAIN file.data => file.data.play_time.type = "Num")

\* whether building the world raised: an item of unknown type anywhere in it
ItemsRaise(items) == \E i \in DOMAIN items : items[i] = Raised

WorldRaises(g, p) ==
    \/ p.weapon = Raised
    \/ ItemsRaise(p.inventory)
    \/ \E c \in Cells(g) :
          LET tile == TileAt(g, c[1], c[2])
          IN tile.item = Raised \/ (tile.enemy # None /\ ItemsRaise(tile.enemy.item_drop))

NoState == [ok |-> FALSE]

\* load_game: every result it can return; NoState is its None
load_game(file, dhp) ==
    IF file.kind = "absent" THEN {NoState}
    ELSE IF file.kind = "garbage" THEN {NoState}
    ELSE IF ~validate_save(file) THEN {NoState}
    ELSE LET data == file.data
             p == player_from_dict(data.player)
         IN {IF WorldRaises(g, p) THEN NoState
             ELSE [ok |-> TRUE, grid |-> g, player |-> p,
                   level_index |-> Get(data, "level_index", 1),
                   play_time |-> IF "play_time" \in DOMAIN data THEN data.play_time.v ELSE 0]
                : g \in grid_from_dict(data.grid, dhp)}

\* load_best: the record main() starts with
load_best(file) ==
    IF file.kind # "dict" THEN [best_score |-> 0, best_time |-> None]
    ELSE [best_score |-> Get(file.data, "best_score", 0),
          best_time |-> Get(file.data, "best_time", None)]

\* the document save_best writes
save_best(best_score, best_time) ==
    [kind |-> "dict", data |-> [best_score |-> best_score, best_time |-> best_time]]

-----------------------------------------------------------------------------
(* The command loop of main().  Each action is one pass through the loop    *)
(* body for one command.                                                    *)

\* the command prompt of main() is waiting for a command
Playing == status = "playing" /\ current_play_time = None /\ prompt = NoPrompt

current_tile == TileAt(grid, player.x, player.y)

\* the variables no command of play touches
session == <<accumulated_play_time, elapsed, current_play_time, prompt, best, levels, default_hp,
             saveFile, bestFile>>

\* faulty variant of Blocked: an enemy on the tile never holds the player
BlockedNever(fled, tile) == FALSE

\* the guard of line 1623 for a movement command
Blocked(fled, tile) == fled = FALSE /\ tile.enemy # None

\* faulty variant of MergeBest: the latest victory replaces the record
MergeBestLatest(old, gold, total_time) ==
    [best_score |-> gold, best_time |-> Num(total_time)]

\* faulty variant of MoveOutcomes: the player walks onto any tile
MoveOutcomesThrough(g, p, new_x, new_y) ==
    move_enemies(g, on_enter(TileAt(g, new_x, new_y), [p EXCEPT !.x = new_x, !.y = new_y], g))

\* faulty variant of MoveOutcomes: the enemy pass also follows a bump
MoveOutcomesBump(g, p, new_x, new_y) ==
    LET next_tile == TileAt(g, new_x, new_y)
    IN IF next_tile.walkable
       THEN move_enemies(g, on_enter(next_tile, [p EXCEPT !.x = new_x, !.y = new_y], g))
       ELSE move_enemies(g, on_enter(next_tile, p, g))

\* lines 1770-1786: the move onto (new_x, new_y) or the bump into it, with the
\* enemy pass that follows a move; every <<grid, player, over>> outcome
MoveOutcomes(g, p, new_x, new_y) ==
    LET next_tile == TileAt(g, new_x, new_y)
    IN IF next_tile.walkable
       THEN move_enemies(g, on_enter(next_tile, [p EXCEPT !.x = new_x, !.y = new_y], g))
       ELSE {[grid |-> g, player |-> on_enter(next_tile, p, g), over |-> FALSE]}

\* lines 1810-1814: the best record after a victory with this gold and total time
MergeBest(old, gold, total_time) ==
    [best_score |-> Max(old.best_score, gold),
     best_time |-> IF old.best_time = None \/ total_time < old.best_time.v
                   THEN Num(total_time) ELSE old.best_time]

\* faulty variant of AfterMove: the next level does not restore the hit points
AfterMoveNoHeal(g, p) ==
    IF ~p.at_exit
    THEN /\ grid' = g
         /\ player' = p
         /\ UNCHANGED <<level_index, status, session>>
    ELSE IF level_index < Len(levels)
    THEN /\ level_index' = level_index + 1
         /\ \E lvl \in load_level(levels[level_index + 1], level_index + 1, default_hp) :
               /\ grid' = lvl[1]
               /\ player' = [p EXCEPT !.x = lvl[2], !.y = lvl[3], !.at_exit = FALSE,
                                      !.MAX_HP = p.MAX_HP + 5]
         /\ UNCHANGED <<status, session>>
    ELSE LET merged == MergeBest(best, p.gold, accumulated_play_time + elapsed)
         IN /\ grid' = g
            /\ player' = p
            /\ status' = "victory"
            /\ best' = merged
            /\ bestFile' = IF merged # best
                           THEN save_best(merged.best_score, merged.best_time)
                           ELSE bestFile
            /\ UNCHANGED <<level_index, accumulated_play_time, elapsed, current_play_time,
                           prompt,
                           levels, default_hp,
                           saveFile>>

\* lines 1790-1824: what follows a movement whose outcome is (g, p)
AfterMove(g, p) ==
    IF ~p.at_exit
    THEN /\ grid' = g
         /\ player' = p
         /\ UNCHANGED <<level_index, status, session>>
    ELSE IF level_index < Len(levels)
    THEN /\ level_index' = level_index + 1
         /\ \E lvl \in load_level(levels[level_index + 1], level_index + 1, default_hp) :
               /\ grid' = lvl[1]
               /\ player' = [p EXCEPT !.x = lvl[2], !.y = lvl[3], !.at_exit = FALSE,
                                      !.MAX_HP = p.MAX_HP + 5, !.hp = p.MAX_HP + 5]
         /\ UNCHANGED <<status, session>>
    ELSE LET merged == MergeBest(best, p.gold, accumulated_play_time + elapsed)
         IN /\ grid' = g
            /\ player' = p
            /\ status' = "victory"
            /\ best' = merged
            /\ bestFile' = IF merged # best
                           THEN save_best(merged.best_score, merged.best_time)
                           ELSE bestFile
            /\ UNCHANGED <<level_index, accumulated_play_time, elapsed, current_play_time,
                           prompt,
                           levels, default_hp,
                           saveFile>>

\* the lines a movement command appends to the log before any enemy pass
MoveLog(g, p, fled, dx, dy) ==
    LET tile == TileAt(g, p.x, p.y)
        new_x == p.x + dx
        new_y == p.y + dy
    IN IF Blocked(fled, tile)
       THEN <<LogLine("You can't move! There is a {} blocking your way.", tile.enemy.name, 0),
              LogLine("Press [F] to fight, [R] to run away, or [U] to use an item.", "", 0)>>
       ELSE IF p.hp <= 0
       THEN <<LogLine("Your health has been depleted.", "", 0), LogLine("GAME OVER!", "", 0)>>
       ELSE IF new_x < 0 \/ new_x >= Len(g[1]) \/ new_y >= Len(g) \/ new_y < 0
       THEN <<LogLine("You can't move outside the map.", "", 0)>>
       ELSE on_enter_log(TileAt(g, new_x, new_y), g)

\* commands w, s, a, d
MoveCmd(dx, dy) ==
    /\ Playing
    /\ IF Blocked(run_away, current_tile) THEN UNCHANGED vars
       ELSE /\ run_away' = FALSE
            /\ LET new_x == player.x + dx
                   new_y == player.y + dy
               IN IF player.hp <= 0
                  THEN status' = "gameover" /\ UNCHANGED <<grid, player, level_index, session>>
                  ELSE IF new_x < 0 \/ new_x >= Len(grid[1]) \/ new_y >= Len(grid) \/ new_y < 0
                  THEN UNCHANGED <<grid, player, level_index, status, session>>
                  ELSE IF new_x >= Len(grid[new_y + 1])
                  THEN status' = "crashed" /\ UNCHANGED <<grid, player, level_index, session>>
                  ELSE \E r \in MoveOutcomes(grid, player, new_x, new_y) :
                          IF r.over
                          THEN /\ grid' = r.grid
                               /\ player' = r.player
                               /\ status' = "gameover"
                               /\ UNCHANGED <<level_index, session>>
                          ELSE AfterMove(r.grid, r.player)

\* command t
TakeCmd ==
    /\ Playing
    /\ LET r == handle_picking_up_items(current_tile, player)
       IN /\ grid' = SetTile(grid, player.x, player.y, r[1])
          /\ player' = r[2]
          /\ prompt' = r[3]
    /\ UNCHANGED <<level_index, run_away, status, accumulated_play_time, elapsed,
                   current_play_time, best, levels, default_hp, saveFile, bestFile>>

\* the number typed at the read_int of the chest on the player's tile
ChestPick(choice) ==
    /\ status = "playing"
    /\ prompt = ChestPrompt
    /\ choice \in 0..Len(current_tile.treasure)
    /\ LET r == on_interact(current_tile.treasure, player, choice)
       IN /\ grid' = SetTile(grid, player.x, player.y, [current_tile EXCEPT !.treasure = r[1]])
          /\ player' = r[2]
          /\ prompt' = r[3]
    /\ UNCHANGED <<level_index, run_away, status, accumulated_play_time, elapsed,
                   current_play_time, best, levels, default_hp, saveFile, bestFile>>

\* faulty variant of UseItem: the entry at the front is the one removed
UseItemFront(p, choice) ==
    {[q EXCEPT !.inventory = Tail(q.inventory)] : q \in on_use(p.inventory[choice], p)}

\* lines 1669-1671: on_use of the chosen inventory entry, then its removal
UseItem(p, choice) ==
    {[q EXCEPT !.inventory = RemoveAt(q.inventory, choice)] : q \in on_use(p.inventory[choice], p)}

\* the counter-attack of the enemy on the player's tile: GameOver when it fells the player
CounterAttack(g, p) ==
    \E q \in attack(TileAt(g, p.x, p.y).enemy, p) :
        /\ grid' = g
        /\ player' = q
        /\ status' = IF Defeated(q) THEN "gameover" ELSE status

\* command u; choice is the number typed at the prompt, 0 is Back
UseCmd(choice) ==
    /\ Playing
    /\ choice \in 0..Len(player.inventory)
    /\ IF choice = 0 THEN UNCHANGED <<grid, player, status>>
       ELSE \E q \in UseItem(player, choice) :
               IF current_tile.enemy # None
               THEN CounterAttack(grid, q)
               ELSE grid' = grid /\ player' = q /\ status' = status
    /\ UNCHANGED <<level_index, run_away, session>>

\* command f, up to the first input() of take_damage when the enemy falls
\* with more drops than the inventory has room for: the enemy has left the
\* tile and the exits are open by then
FightCmd ==
    /\ Playing
    /\ IF run_away \/ current_tile.enemy = None THEN UNCHANGED <<grid, player, status, prompt>>
       ELSE \E amount \in PlayerDamage(player) :
            \E r \in take_damage(amount, player, grid, player.x, player.y) :
               IF TileAt(r[1], player.x, player.y).enemy # None
               THEN CounterAttack(r[1], r[2]) /\ UNCHANGED prompt
               ELSE LET d == DropUntilWait(current_tile.enemy.item_drop, player.inventory)
                    IN /\ grid' = r[1]
                       /\ player' = [player EXCEPT !.inventory = d[1]]
                       /\ status' = status
                       /\ prompt' = DropPrompt(d[2])
    /\ UNCHANGED <<level_index, run_away, accumulated_play_time, elapsed, current_play_time,
                   best, levels, default_hp, saveFile, bestFile>>

\* the answer y or n at "remove an item? (y/n)" of take_damage: n goes on to
\* the next drop, y to the read_int that asks which item to throw away
DropAnswer(command) ==
    /\ status = "playing"
    /\ prompt.at = "remove"
    /\ IF command = "y"
       THEN prompt' = [at |-> "choose", item_drop |-> prompt.item_drop] /\ UNCHANGED player
       ELSE LET kept == DropAtCapacity(player.inventory, Head(prompt.item_drop),
                                       [command |-> "n", choice |-> 0])
                d == DropUntilWait(Tail(prompt.item_drop), kept)
            IN /\ player' = [player EXCEPT !.inventory = d[1]]
               /\ prompt' = DropPrompt(d[2])
    /\ UNCHANGED <<grid, level_index, run_away, status, accumulated_play_time, elapsed,
                   current_play_time, best, levels, default_hp, saveFile, bestFile>>

\* the number typed at the read_int of take_damage (line 582): 0 is Back and
\* makes take_damage return, another number swaps and goes on to the next drop
DropChoose(choice) ==
    /\ status = "playing"
    /\ prompt.at = "choose"
    /\ choice \in 0..Len(player.inventory)
    /\ IF choice = 0
       THEN prompt' = NoPrompt /\ UNCHANGED player
       ELSE LET swapped == DropAtCapacity(player.inventory, Head(prompt.item_drop),
                                          [command |-> "y", choice |-> choice])
                d == DropUntilWait(Tail(prompt.item_drop), swapped)
            IN /\ player' = [player EXCEPT !.inventory = d[1]]
               /\ prompt' = DropPrompt(d[2])
    /\ UNCHANGED <<grid, level_index, run_away, status, accumulated_play_time, elapsed,
                   current_play_time, best, levels, default_hp, saveFile, bestFile>>

\* faulty variant of FleeCmd: a roll of 4 also gets the player away
FleeCmdLucky(result) ==
    /\ Playing
    /\ IF run_away \/ current_tile.enemy = None
       THEN UNCHANGED <<grid, player, status, run_away>>
       ELSE IF result <= 4
       THEN run_away' = TRUE /\ UNCHANGED <<grid, player, status>>
       ELSE CounterAttack(grid, player) /\ run_away' = run_away
    /\ UNCHANGED <<level_index, session>>

\* command r; result is the roll of the die
FleeCmd(result) ==
    /\ Playing
    /\ IF run_away \/ current_tile.enemy = None
       THEN UNCHANGED <<grid, player, status, run_away>>
       ELSE IF result <= 3
       THEN run_away' = TRUE /\ UNCHANGED <<grid, player, status>>
       ELSE CounterAttack(grid, player) /\ run_away' = run_away
    /\ UNCHANGED <<level_index, session>>

\* command p: main() reads the clock (line 1720) and handle_save either
\* writes game.json at once, when there is none, or shows the overwrite
\* prompt and waits with the play time it was given
SaveCmd ==
    /\ Playing
    /\ IF saveFile.kind = "absent"
       THEN /\ saveFile' = save_game(grid, player, level_index, accumulated_play_time + elapsed)
            /\ UNCHANGED current_play_time
       ELSE /\ current_play_time' = Num(accumulated_play_time + elapsed)
            /\ UNCHANGED saveFile
    /\ UNCHANGED <<grid, player, level_index, run_away, accumulated_play_time, elapsed,
                   prompt, best, status, levels, default_hp, bestFile>>

\* the answer y or n to the overwrite prompt of handle_save: y writes the
\* state with the play time read when p was typed
SaveAnswer(overwrite) ==
    /\ status = "playing"
    /\ current_play_time # None
    /\ saveFile' = IF overwrite
                   THEN save_game(grid, player, level_index, current_play_time.v)
                   ELSE saveFile
    /\ current_play_time' = None
    /\ UNCHANGED <<grid, player, level_index, run_away, accumulated_play_time, elapsed,
                   prompt, best, status, levels, default_hp, bestFile>>

\* faulty variant of Install: the level index and the play time are not taken over
InstallPartly(result) ==
    IF result.ok
    THEN /\ grid' = result.grid
         /\ player' = result.player
         /\ UNCHANGED <<level_index, accumulated_play_time, elapsed>>
    ELSE UNCHANGED <<grid, player, level_index, accumulated_play_time, elapsed>>

\* lines 1744-1746: the result of load_game taken over by main()
Install(result) ==
    IF result.ok
    THEN /\ grid' = result.grid
         /\ player' = result.player
         /\ level_index' = result.level_index
         /\ accumulated_play_time' = result.play_time
         /\ elapsed' = 0
    ELSE UNCHANGED <<grid, player, level_index, accumulated_play_time, elapsed>>

\* command l; confirm is the answer to "Are you sure"
LoadCmd(confirm) ==
    /\ Playing
    /\ IF confirm
       THEN \E result \in load_game(saveFile, default_hp) : Install(result)
       ELSE UNCHANGED <<grid, player, level_index, accumulated_play_time, elapsed>>
    /\ UNCHANGED <<run_away, current_play_time, prompt, best, status, levels, default_hp, saveFile,
                   bestFile>>

\* faulty variant of QuitCmd: quitting records the score like a victory
QuitCmdRecording ==
    LET merged == [best EXCEPT !.best_score = Max(best.best_score, player.gold)]
    IN /\ Playing
       /\ status' = "quit"
       /\ best' = merged
       /\ bestFile' = IF merged # best
                      THEN save_best(merged.best_score, merged.best_time)
                      ELSE bestFile
       /\ UNCHANGED <<grid, player, level_index, run_away, accumulated_play_time, elapsed,
                      current_play_time, prompt, levels, default_hp, saveFile>>

\* command q
QuitCmd ==
    /\ Playing
    /\ status' = "quit"
    /\ UNCHANGED <<grid, player, level_index, run_away, session>>

\* lines 1835-1837: the session is interrupted from the keyboard
InterruptCmd ==
    /\ status = "playing"
    /\ status' = "interrupted"
    /\ current_play_time' = None
    /\ prompt' = NoPrompt
    /\ UNCHANGED <<grid, player, level_index, run_away, accumulated_play_time, elapsed,
                   best, levels, default_hp, saveFile, bestFile>>

\* the monotonic clock advances while the program waits for input, at the
\* command prompt or at the overwrite prompt
Tick ==
    /\ status = "playing"
    /\ accumulated_play_time + elapsed < MaxClock
    /\ elapsed' = elapsed + 1
    /\ UNCHANGED <<grid, player, level_index, run_away, accumulated_play_time,
                   current_play_time, prompt, best, status, levels, default_hp, saveFile,
                   bestFile>>

Directions == {<<0, -1>>, <<0, 1>>, <<-1, 0>>, <<1, 0>>}

-----------------------------------------------------------------------------
(* The state main() starts in, for a given level source *)

InitWith(lv) ==
    /\ levels = lv
    /\ default_hp \in DefaultHpChoices
    /\ level_index = 1
    /\ \E lvl \in load_level(lv[1], 1, default_hp) :
          /\ grid = lvl[1]
          /\ player = Player(lvl[2], lvl[3])
    /\ run_away = FALSE
    /\ accumulated_play_time = 0
    /\ elapsed = 0
    /\ current_play_time = None
    /\ prompt = NoPrompt
    /\ saveFile = NoFile
    /\ bestFile = NoFile
    /\ best = load_best(bestFile)
    /\ status = "playing"

-----------------------------------------------------------------------------
(* Play: three small levels, each with a wall, an enemy and the exit *)

PlayLevels ==
    << << <<"#", "@", "p", "E", "X">> >>,
       << <<"#", "@", "E", "X">> >>,
       << <<"#", "@", "E", "X">> >> >>

Init == InitWith(PlayLevels)

Next ==
    \/ \E d \in Directions : MoveCmd(d[1], d[2])
    \/ TakeCmd
    \/ \E choice \in 0..MAX_INVENTORY : UseCmd(choice)
    \/ FightCmd
    \/ \E result \in 1..6 : FleeCmd(result)

Spec == Init /\ [][Next]_vars

-----------------------------------------------------------------------------
(* Pack: one level with two enemies side by side between the player and the *)
(* exit, so that one enemy can lunge onto a cell another one stands on, and *)
(* an enemy pass has more than one enemy to evaluate.                       *)

PackLevels == << << <<"#", "@", "E", "E", "X">> >> >>

InitPack == InitWith(PackLevels)

SpecPack == InitPack /\ [][Next]_vars

-----------------------------------------------------------------------------
(* Items: levels with enough items to fill the inventory.  The first has    *)
(* three floor potions, a chest and an enemy that may carry a drop; the     *)
(* second has gold and three chests and no enemy.  The flee command is not  *)
(* issued.                                                                  *)

ItemLevelsA == << << <<"@", "p", "p", "p", "T", "E">> >> >>
ItemLevelsB == << << <<"@", "$", "T", "T", "T">> >> >>

InitItems == \E lv \in {ItemLevelsA, ItemLevelsB} : InitWith(lv)

NextItems ==
    \/ \E d \in Directions : MoveCmd(d[1], d[2])
    \/ TakeCmd
    \/ \E choice \in 0..MAX_INVENTORY : ChestPick(choice)
    \/ \E choice \in 0..MAX_INVENTORY : UseCmd(choice)
    \/ FightCmd
    \/ \E command \in {"y", "n"} : DropAnswer(command)
    \/ \E choice \in 0..MAX_INVENTORY : DropChoose(choice)

SpecItems == InitItems /\ [][NextItems]_vars

-----------------------------------------------------------------------------
(* Persistence: a level whose enemy is walled off, the save and load        *)
(* commands, the clock, and game.json rewritten from outside the session.   *)

PersistLevels ==
    << << <<"@", "p", "#", "E">> >>,
       << <<"p", "@", "#", "E">> >> >>

\* game.json as a session that reached the second level would have left it
PriorSave ==
    LET lvl == CHOOSE l \in load_level(PersistLevels[2], 2, 4) : TRUE
    IN save_game(lvl[1],
                 [Player(lvl[2], lvl[3]) EXCEPT !.MAX_HP = MAX_HP + 5, !.hp = MAX_HP + 5,
                                                !.inventory = <<Potion>>],
                 2, 1)

\* what game.json can hold when it was not written by this session
ForeignFiles ==
    {NoFile,
     [kind |-> "garbage", data |-> None],
     [kind |-> "list", data |-> None],
     PriorSave,
     \* no "grid" key
     [kind |-> "dict", data |-> [version |-> 1, level_index |-> 2,
                                 player |-> PriorSave.data.player]],
     \* hp above MAX_HP
     [PriorSave EXCEPT !.data.player.hp = MAX_HP + 6],
     \* no rows
     [PriorSave EXCEPT !.data.grid.rows = 0],
     \* play_time null
     [PriorSave EXCEPT !.data.play_time = None],
     \* an item of unknown type in the inventory
     [PriorSave EXCEPT !.data.player.inventory = <<[type |-> "Bomb"]>>],
     \* no "hp" key in the player, and a MAX_HP below the constructor's hp
     [PriorSave EXCEPT !.data.player =
         [k \in DOMAIN PriorSave.data.player \ {"hp"} |->
             IF k = "MAX_HP" THEN MAX_HP - 10 ELSE PriorSave.data.player[k]]],
     \* a tile of unknown type where the wall was
     [PriorSave EXCEPT !.data.grid.tiles[1][3].type = "LavaTile"],
     \* an enemy of unknown type
     [PriorSave EXCEPT !.data.grid.tiles[1][4].enemy.type = "Dragon"],
     \* an item of unknown type on a tile, as the weapon, in an enemy's drop
     [PriorSave EXCEPT !.data.grid.tiles[1][2].item = [type |-> "Bomb"]],
     [PriorSave EXCEPT !.data.player.weapon = [type |-> "Bomb"]],
     [PriorSave EXCEPT !.data.grid.tiles[1][4].enemy.item_drop = <<[type |-> "Bomb"]>>]}

\* game.json is replaced or removed outside the session
ExternalWrite ==
    /\ saveFile' \in ForeignFiles
    /\ UNCHANGED <<grid, player, level_index, run_away, accumulated_play_time, elapsed,
                   current_play_time, prompt, best, status, levels, default_hp, bestFile>>

InitPersist == InitWith(PersistLevels)

NextPersist ==
    \/ \E d \in Directions : MoveCmd(d[1], d[2])
    \/ TakeCmd
    \/ \E choice \in 0..MAX_INVENTORY : UseCmd(choice)
    \/ SaveCmd
    \/ \E overwrite \in BOOLEAN : SaveAnswer(overwrite)
    \/ \E confirm \in BOOLEAN : LoadCmd(confirm)
    \/ Tick
    \/ ExternalWrite

SpecPersist == InitPersist /\ [][NextPersist]_vars

-----------------------------------------------------------------------------
(* Arms: one level with a chest next to an enemy and the exit, so that the  *)
(* player can fight with and without a weapon, and flee.                    *)

ArmsLevels == << << <<"@", "T", "E", "X">> >> >>

InitArms == InitWith(ArmsLevels)

\* the commands of Spec, and the number typed at the chest
NextArms ==
    \/ Next
    \/ \E choice \in 0..MAX_INVENTORY : ChestPick(choice)

SpecArms == InitArms /\ [][NextArms]_vars

-----------------------------------------------------------------------------
(* Roam: every command of main(). The play levels are explored with the     *)
(* commands of play; the roam level, where a wall keeps the player apart    *)
(* from an enemy that has room to move between a potion and a chest, is     *)
(* explored with save, load and the clock as well, so that a load can meet  *)
(* enemies that moved since the save.                                       *)

RoamLevels == << << <<"@", ".", "#", "p", "E", ".", "T">> >> >>

InitRoam == \E lv \in {PlayLevels, RoamLevels} : InitWith(lv)

NextRoam ==
    \/ \E d \in Directions : MoveCmd(d[1], d[2])
    \/ TakeCmd
    \/ \E choice \in 0..MAX_INVENTORY : UseCmd(choice)
    \/ FightCmd
    \/ \E result \in 1..6 : FleeCmd(result)
    \/ levels = RoamLevels /\ SaveCmd
    \/ levels = RoamLevels /\ \E overwrite \in BOOLEAN : SaveAnswer(overwrite)
    \/ levels = RoamLevels /\ \E confirm \in BOOLEAN : LoadCmd(confirm)
    \/ levels = RoamLevels /\ Tick
    \/ levels = RoamLevels /\ ExternalWrite

SpecRoam == InitRoam /\ [][NextRoam]_vars

-----------------------------------------------------------------------------
(* Equip: the use command from every small inventory of potions and weapons *)
(* with every weapon, or none, equipped: the chests and drops of a game can *)
(* leave the player with any of them.                                       *)

MaxEquipLen == 2

EquipLevels == << << <<"@", ".">> >> >>

EquipItems == {Potion, Dagger, Sword, Axe}

EquipInventories ==
    UNION {[1..n -> EquipItems] : n \in 0..MaxEquipLen}

InitEquip ==
    /\ levels = EquipLevels
    /\ default_hp \in DefaultHpChoices
    /\ level_index = 1
    /\ \E lvl \in load_level(EquipLevels[1], 1, default_hp) :
          /\ grid = lvl[1]
          /\ \E weapon \in {None, Dagger, Sword, Axe}, inventory \in EquipInventories,
                hp \in {MAX_HP - 5, MAX_HP} :
                player = [Player(lvl[2], lvl[3]) EXCEPT !.weapon = weapon,
                                                        !.inventory = inventory,
                                                        !.hp = hp]
    /\ run_away = FALSE
    /\ accumulated_play_time = 0
    /\ elapsed = 0
    /\ current_play_time = None
    /\ prompt = NoPrompt
    /\ saveFile = NoFile
    /\ bestFile = NoFile
    /\ best = load_best(bestFile)
    /\ status = "playing"

NextEquip == \E choice \in 0..MAX_INVENTORY : UseCmd(choice)

SpecEquip == InitEquip /\ [][NextEquip]_vars

-----------------------------------------------------------------------------
(* Record: sessions that follow one another over two levels, with the clock *)
(* and a highscores.json that earlier sessions may have left.  The player   *)
(* moves, takes and fights; it neither flees nor uses an item.              *)

RecordLevels ==
    << << <<"@", "E", "X">> >>,
       << <<"@", "$", "E", "X">> >> >>

\* highscores.json before the first session: absent, or the record of a
\* victory with one piece of gold after one clock unit
RecordFiles == {NoFile, save_best(1, Num(1))}

\* lines 1595-1608 with everything but highscores.json and game.json fresh
StartSession(file) ==
    /\ level_index' = 1
    /\ \E lvl \in load_level(levels[1], 1, default_hp) :
          /\ grid' = lvl[1]
          /\ player' = Player(lvl[2], lvl[3])
    /\ run_away' = FALSE
    /\ accumulated_play_time' = 0
    /\ elapsed' = 0
    /\ current_play_time' = None
    /\ prompt' = NoPrompt
    /\ best' = load_best(file)
    /\ status' = "playing"
    /\ UNCHANGED <<levels, default_hp, saveFile, bestFile>>

\* the program is started again after a session has ended
NewSession ==
    /\ status # "playing"
    /\ StartSession(bestFile)

InitRecord ==
    /\ levels = RecordLevels
    /\ default_hp \in DefaultHpChoices
    /\ level_index = 1
    /\ \E lvl \in load_level(RecordLevels[1], 1, default_hp) :
          /\ grid = lvl[1]
          /\ player = Player(lvl[2], lvl[3])
    /\ run_away = FALSE
    /\ accumulated_play_time = 0
    /\ elapsed = 0
    /\ current_play_time = None
    /\ prompt = NoPrompt
    /\ saveFile = NoFile
    /\ bestFile \in RecordFiles
    /\ best = load_best(bestFile)
    /\ status = "playing"

NextRecord ==
    \/ \E d \in Directions : MoveCmd(d[1], d[2])
    \/ TakeCmd
    \/ FightCmd
    \/ Tick
    \/ NewSession

SpecRecord == InitRecord /\ [][NextRecord]_vars

-----------------------------------------------------------------------------
(* Resume: play with fight and flee on one level, and loads of a game.json  *)
(* that an earlier session wrote while an enemy stood on the player's tile. *)

ResumeLevels == << << <<"@", ".", "E">> >> >>

\* game.json as save_game writes it after the player stepped to (1, 0) and
\* the enemy lunged from (2, 0) for one point of damage
EngagedSave ==
    LET lvl == CHOOSE l \in load_level(ResumeLevels[1], 1, 4) : TRUE
        e == <<2, 0, TileAt(lvl[1], 2, 0).enemy>>
    IN save_game(Relocate(lvl[1], e, 1, 0),
                 [Player(1, 0) EXCEPT !.hp = MAX_HP - 1],
                 1, 0)

InitResume ==
    /\ levels = ResumeLevels
    /\ default_hp \in DefaultHpChoices
    /\ level_index = 1
    /\ \E lvl \in load_level(ResumeLevels[1], 1, default_hp) :
          /\ grid = lvl[1]
          /\ player = Player(lvl[2], lvl[3])
    /\ run_away = FALSE
    /\ accumulated_play_time = 0
    /\ elapsed = 0
    /\ current_play_time = None
    /\ prompt = NoPrompt
    /\ saveFile = EngagedSave
    /\ bestFile = NoFile
    /\ best = load_best(bestFile)
    /\ status = "playing"

NextResume ==
    \/ \E d \in Directions : MoveCmd(d[1], d[2])
    \/ FightCmd
    \/ \E result \in 1..6 : FleeCmd(result)
    \/ \E confirm \in BOOLEAN : LoadCmd(confirm)

SpecResume == InitResume /\ [][NextResume]_vars

-----------------------------------------------------------------------------
(* Chest: one level with a treasure chest and nothing else, played with     *)
(* take, use, save and load.                                                *)

ChestLevels == << << <<"@", "T">> >> >>

InitChest == InitWith(ChestLevels)

NextChest ==
    \/ \E d \in Directions : MoveCmd(d[1], d[2])
    \/ TakeCmd
    \/ \E choice \in 0..MAX_INVENTORY : ChestPick(choice)
    \/ \E choice \in 0..MAX_INVENTORY : UseCmd(choice)
    \/ SaveCmd
    \/ \E overwrite \in BOOLEAN : SaveAnswer(overwrite)
    \/ \E confirm \in BOOLEAN : LoadCmd(confirm)

SpecChest == InitChest /\ [][NextChest]_vars

-----------------------------------------------------------------------------
(* Properties *)

\* C1: within a level an Exit tile is walkable exactly when no enemy is left
\* on the grid; it turns walkable only in the step in which the number of
\* enemies reaches zero, and once walkable it never turns unwalkable again.
C1_ExitOpenIffNoEnemy ==
    /\ [](\A c \in Cells(grid) :
             LET tile == TileAt(grid, c[1], c[2])
             IN tile.type = "ExitTile" => (tile.walkable <=> enemies_remaining(grid) = 0))
    /\ [][level_index' = level_index =>
             \A c \in Cells(grid) :
                LET tile == TileAt(grid, c[1], c[2])
                    after == TileAt(grid', c[1], c[2])
                IN tile.type = "ExitTile" =>
                      /\ after.type = "ExitTile"
                      /\ tile.walkable => after.walkable
                      /\ (~tile.walkable /\ after.walkable) =>
                            (enemies_remaining(grid) > 0 /\ enemies_remaining(grid') = 0)]_vars

\* the last enemy is gone, the exit is open and the session goes on
C1_Witness ==
    /\ Playing
    /\ enemies_remaining(grid) = 0
    /\ \E c \in Cells(grid) :
          TileAt(grid, c[1], c[2]).type = "ExitTile" /\ TileAt(grid, c[1], c[2]).walkable

\* C2: after every command the inventory holds at most MAX_INVENTORY items,
\* whether items came from the floor, a chest, an enemy's drop or the weapon
\* that an equip puts back.
C2_InventoryWithinCapacity == Len(player.inventory) <= MAX_INVENTORY

\* the inventory is full and the player stands on a chest that still holds an item
C2_Witness ==
    /\ Len(player.inventory) = MAX_INVENTORY
    /\ current_tile.type = "TreasureChestTile"
    /\ current_tile.treasure # <<>>

\* C3: a load either leaves grid, player, level index and accumulated play
\* time all as they were (game.json missing, not JSON, failing validation, or
\* failing while the world is rebuilt) or sets all four to what the document
\* holds; no step of a load changes only some of them.
C3_LoadAllOrNothing ==
    [][LoadCmd(TRUE) =>
          LET rejected == \/ saveFile.kind \in {"absent", "garbage"}
                          \/ ~validate_save(saveFile)
                          \/ NoState \in load_game(saveFile, default_hp)
          IN IF rejected
             THEN UNCHANGED <<grid, player, level_index, accumulated_play_time>>
             ELSE /\ grid' \in grid_from_dict(saveFile.data.grid, default_hp)
                  /\ player' = player_from_dict(saveFile.data.player)
                  /\ level_index' = saveFile.data.level_index
                  /\ accumulated_play_time' = saveFile.data.play_time.v]_vars

\* a document of another session was loaded: second level, its play time
C3_Witness ==
    /\ level_index = 2
    /\ accumulated_play_time = PriorSave.data.play_time.v
    /\ player.MAX_HP = MAX_HP + 5

\* C4: what load_game returns for the document that save_game writes for the
\* current state is that state again: the same grid, chest contents included,
\* the same player, the same level index and the play time recorded.
C4_SaveThenLoadRestores ==
    \A r \in load_game(save_game(grid, player, level_index, accumulated_play_time + elapsed),
                       default_hp) :
        /\ r.ok
        /\ r.grid = grid
        /\ r.player = player
        /\ r.level_index = level_index
        /\ r.play_time = accumulated_play_time + elapsed

\* ---- worlds with every kind of tile ----
\* One level with gold, a potion, a chest, an enemy and the exit in a row:
\* play reaches worlds with items taken and left, a weapon equipped, an
\* enemy that has lost hp, the exit unlocked and the player through it.
WorldLevels == << << <<"$", "@", "p", "T", "E", "X">> >> >>

InitWorld == InitWith(WorldLevels)

NextWorld ==
    \/ \E d \in Directions : MoveCmd(d[1], d[2])
    \/ TakeCmd
    \/ \E choice \in 0..MAX_INVENTORY : ChestPick(choice)
    \/ \E choice \in 0..MAX_INVENTORY : UseCmd(choice)
    \/ FightCmd

SpecWorld == InitWorld /\ [][NextWorld]_vars

\* C5: writing the world to its document and reading it back keeps the
\* player's position, hp, max hp, gold, at_exit flag, equipped weapon and
\* inventory, the dimensions of the grid and, for every tile, its type, its
\* walkability, its item and every field of its enemy.
C5_RoundTripKeepsFields ==
    /\ LET p == player_from_dict(player_to_dict(player))
       IN /\ p.hp = player.hp /\ p.MAX_HP = player.MAX_HP /\ p.gold = player.gold
          /\ p.x = player.x /\ p.y = player.y
          /\ p.at_exit = player.at_exit
          /\ p.weapon = player.weapon /\ p.inventory = player.inventory
    /\ \A g \in grid_from_dict(grid_to_dict(grid), default_hp) :
          /\ Len(g) = Len(grid)
          /\ \A y \in DOMAIN grid : Len(g[y]) = Len(grid[y])
          /\ \A c \in Cells(grid) :
                LET tile == TileAt(grid, c[1], c[2])
                    back == TileAt(g, c[1], c[2])
                IN /\ back.type = tile.type
                   /\ back.walkable = tile.walkable
                   /\ back.item = tile.item
                   /\ back.enemy = tile.enemy

\* the player has stepped through the exit, which is walkable against the
\* default of its class, with a weapon equipped, gold collected and an item
\* in the inventory, while an item still lies on a tile
C5_Witness ==
    /\ player.at_exit
    /\ current_tile.type = "ExitTile"
    /\ current_tile.walkable
    /\ player.weapon # None
    /\ player.inventory # <<>>
    /\ player.gold > 0
    /\ \E c \in Cells(grid) : TileAt(grid, c[1], c[2]).item # None

\* C6: an enemy attack that leaves the player with hp <= 0 ends the session
\* as game over in the step of the attack: a player with hp <= 0 is only seen
\* in a game-over state, that step changes no level index, after a fatal lunge
\* the cell the attacker left is still empty (no enemy evaluated later in the
\* pass has moved), and no step after game over changes grid, player or level.
C6_FatalAttackEndsSession ==
    /\ [](player.hp <= 0 => status = "gameover")
    /\ [][(player.hp > 0 /\ player'.hp <= 0) =>
             /\ status' = "gameover"
             /\ level_index' = level_index
             /\ (player'.x # player.x \/ player'.y # player.y) =>
                   \E i \in 1..4 :
                      LET c == surrounding_tiles(player'.x, player'.y)[i]
                      IN /\ in_bounds(grid, c[1], c[2])
                         /\ TileAt(grid, c[1], c[2]).enemy # None
                         /\ TileAt(grid', c[1], c[2]).enemy = None
                         /\ TileAt(grid', player'.x, player'.y).enemy =
                               [TileAt(grid, c[1], c[2]).enemy
                                  EXCEPT !.x = player'.x, !.y = player'.y]]_vars
    /\ [][status = "gameover" => UNCHANGED <<grid, player, level_index, status>>]_vars

\* game over with both enemies of the level alive, the attacker on the player's tile
C6_Witness ==
    /\ status = "gameover"
    /\ player.hp <= 0
    /\ current_tile.enemy # None
    /\ enemies_remaining(grid) = 2

\* C7: the player is marked at the exit, the level index advances and the
\* game is won only when no enemy is left on the grid; while an enemy is
\* left, a movement command aimed at the Exit tile leaves the player's
\* position and the level index as they were.
C7_ExitOnlyWhenCleared ==
    /\ [](player.at_exit => enemies_remaining(grid) = 0)
    /\ [][level_index' # level_index =>
             (enemies_remaining(grid) = 0 /\ level_index' = level_index + 1)]_vars
    /\ [][(status = "playing" /\ status' = "victory") => enemies_remaining(grid) = 0]_vars
    /\ [][\A d \in Directions :
             LET new_x == player.x + d[1]
                 new_y == player.y + d[2]
             IN (/\ MoveCmd(d[1], d[2])
                 /\ enemies_remaining(grid) > 0
                 /\ in_bounds(grid, new_x, new_y)
                 /\ TileAt(grid, new_x, new_y).type = "ExitTile")
                => /\ player'.x = player.x /\ player'.y = player.y
                   /\ ~player'.at_exit
                   /\ level_index' = level_index]_vars

\* the game is won on the last level, the player marked at the exit
C7_Witness ==
    /\ status = "victory"
    /\ player.at_exit
    /\ level_index = Len(levels)

\* C8: while the player's tile holds an enemy and the fled flag is not set, a
\* movement command changes neither the player nor the grid: the player does
\* not move and no enemy pass runs.
C8_EngagedMovementRejected ==
    [][\A d \in Directions :
          (/\ Playing
           /\ ~run_away
           /\ current_tile.enemy # None
           /\ MoveCmd(d[1], d[2]))
          => UNCHANGED <<grid, player, level_index, status, run_away>>]_vars

\* an enemy shares the player's tile and the player has not fled
C8_Witness ==
    /\ Playing
    /\ ~run_away
    /\ current_tile.enemy # None

\* C9: while the fled flag is set the fight and flee commands change nothing,
\* and the flag stays set in every step that leaves the player where they
\* are: only a change of position clears it.
C9_FledUntilMoved ==
    /\ [][(run_away /\ (FightCmd \/ \E result \in 1..6 : FleeCmd(result)))
             => UNCHANGED <<grid, player, status, run_away>>]_vars
    /\ [][(/\ run_away
           /\ player'.x = player.x /\ player'.y = player.y
           /\ level_index' = level_index)
          => run_away']_vars

\* C10: in a step taken with the fled flag set that leaves the player on
\* their tile, the player loses no hp: the enemy on the tile does not attack.
C10_NoAttackAfterFlee ==
    [][(/\ run_away
        /\ player'.x = player.x /\ player'.y = player.y
        /\ level_index' = level_index)
       => player'.hp >= player.hp]_vars

\* what C11 says a fight does to the enemy on the player's tile and to the player
FightExchange ==
    LET enemy == current_tile.enemy
        after == TileAt(grid', player.x, player.y).enemy
        low == IF player.weapon # None THEN player.weapon.attack_low ELSE 1
        high == IF player.weapon # None THEN player.weapon.attack_high ELSE 2
    IN IF after # None
       THEN /\ after = [enemy EXCEPT !.hp = after.hp]
            /\ (enemy.hp - after.hp) \in low..high
            /\ (player.hp - player'.hp) \in enemy.attack_damage_low..enemy.attack_damage_high
       ELSE /\ enemy.hp <= high
            /\ player'.hp = player.hp

\* C11 as stated: no fight command on a tile that holds an enemy does
\* anything but this: it reduces
\* the enemy's hp by a roll of the weapon (1..2 bare-handed); a surviving enemy
\* reduces the player's hp by a roll of its own in the same step; when the
\* enemy is defeated the player's hp is unchanged.
C11_FightAsStated ==
    (Playing /\ current_tile.enemy # None) => ~ENABLED (FightCmd /\ ~FightExchange)

\* C11 amended: the same, for a fight command issued while the fled flag is
\* not set (with the flag set the command is refused and changes nothing).
C11_FightExchange ==
    (Playing /\ current_tile.enemy # None) =>
        ~ENABLED (FightCmd /\ ~(IF run_away THEN UNCHANGED <<grid, player>>
                                            ELSE FightExchange))

\* the armed player and the enemy on their tile have both been hit
C11_Witness ==
    /\ player.weapon # None
    /\ player.hp < player.MAX_HP
    /\ current_tile.enemy # None
    /\ current_tile.enemy.hp < default_hp

\* C12: a flee command on a tile that holds an enemy, with the fled flag not
\* set, leaves the player where they are and does one of two things: on a
\* roll of 3 or less it sets the flag and changes neither the player nor the
\* grid; on a higher roll the flag stays unset, the grid is unchanged and the
\* player loses one attack roll of the enemy.
C12_FleeTwoOutcomes ==
    [][\A result \in 1..6 :
          (Playing /\ current_tile.enemy # None /\ ~run_away /\ FleeCmd(result)) =>
             /\ player'.x = player.x /\ player'.y = player.y
             /\ grid' = grid
             /\ IF result <= 3
                THEN run_away' /\ player' = player
                ELSE /\ ~run_away'
                     /\ player' = [player EXCEPT !.hp = player'.hp]
                     /\ (player.hp - player'.hp) \in
                           current_tile.enemy.attack_damage_low ..
                           current_tile.enemy.attack_damage_high]_vars

\* the player has got away from the enemy that is still on their tile
C12_Witness ==
    /\ Playing
    /\ run_away
    /\ current_tile.enemy # None

\* C13: take_damage(amount) on the enemy of the player's tile, for every
\* amount a weapon can roll: with amount >= the enemy's hp the tile holds no
\* enemy afterwards and the grid has exactly one enemy fewer; with amount <
\* hp the enemy is still there with hp lower by exactly amount; the enemy and
\* the item of every other tile are as before.
C13_TakeDamageLocal ==
    (Playing /\ current_tile.enemy # None) =>
        \A amount \in 1..Axe.attack_high :
        \A r \in take_damage(amount, player, grid, player.x, player.y) :
            LET enemy == current_tile.enemy
                after == TileAt(r[1], player.x, player.y).enemy
            IN /\ amount >= enemy.hp =>
                     /\ after = None
                     /\ enemies_remaining(r[1]) = enemies_remaining(grid) - 1
               /\ amount < enemy.hp => after = [enemy EXCEPT !.hp = enemy.hp - amount]
               /\ \A c \in Cells(grid) \ {<<player.x, player.y>>} :
                     /\ TileAt(r[1], c[1], c[2]).enemy = TileAt(grid, c[1], c[2]).enemy
                     /\ TileAt(r[1], c[1], c[2]).item = TileAt(grid, c[1], c[2]).item

\* the enemy on the player's tile has survived a hit and another enemy is on the grid
C13_Witness ==
    /\ Playing
    /\ enemies_remaining(grid) = 2
    /\ current_tile.enemy # None
    /\ current_tile.enemy.hp < default_hp

\* C14: when the enemy on the player's tile carries a drop and the inventory
\* is full, the swap that throws away inventory item k leaves the previous
\* items without item k, followed by the dropped item.
C14_SwapTakesDrop ==
    (/\ Playing
     /\ current_tile.enemy # None
     /\ current_tile.enemy.item_drop # <<>>
     /\ Len(player.inventory) = MAX_INVENTORY)
    => \A k \in 1..Len(player.inventory) :
          LET item == Head(current_tile.enemy.item_drop)
          IN DropAtCapacity(player.inventory, item, [command |-> "y", choice |-> k])
                = Append(RemoveAt(player.inventory, k), item)

\* C15: when the enemy on the player's tile carries drops and is defeated:
\* with room in the inventory the drops are appended in order; with a full
\* inventory, declining the swap or backing out of the choice leaves the
\* inventory as it was; in every case the enemy is gone from its tile.
C15_DropWithRoomOrDeclined ==
    /\ (Playing /\ current_tile.enemy # None /\ current_tile.enemy.item_drop # <<>>) =>
        LET enemy == current_tile.enemy
            inventory == player.inventory
        IN /\ \A amount \in 1..Axe.attack_high :
              \A r \in take_damage(amount, player, grid, player.x, player.y) :
                 amount >= enemy.hp =>
                    /\ TileAt(r[1], player.x, player.y).enemy = None
                    /\ Len(inventory) + Len(enemy.item_drop) <= MAX_INVENTORY =>
                          r[2].inventory = inventory \o enemy.item_drop
           /\ Len(inventory) = MAX_INVENTORY =>
                 \A answer \in DropAnswers(inventory) :
                    (answer.command = "n" \/ answer.choice = 0) =>
                       DropAtCapacity(inventory, Head(enemy.item_drop), answer) = inventory
    \* at the prompts of the drop the enemy is gone already, and n, or y and
    \* then Back, leave the player as they are
    /\ prompt.at \in {"remove", "choose"} => current_tile.enemy = None
    /\ prompt.at = "remove" => ~ENABLED (DropAnswer("n") /\ player' # player)
    /\ prompt.at = "remove" => ~ENABLED (DropAnswer("y") /\ player' # player)
    /\ prompt.at = "choose" => ~ENABLED (DropChoose(0) /\ player' # player)

\* the drop of the defeated enemy went into an inventory that had room: the
\* five potions of the level are all in it
C15_Witness ==
    /\ levels = ItemLevelsA
    /\ enemies_remaining(grid) = 0
    /\ player.inventory = <<Potion, Potion, Potion, Potion, Potion>>

\* C16: with MAX_INVENTORY items in the inventory, a take on a floor tile
\* that holds a Potion or a Weapon, or on a treasure chest, changes neither
\* the inventory nor the tile: the item stays where it is.
C16_FullInventoryRefuses ==
    [][(/\ Len(player.inventory) = MAX_INVENTORY
        /\ \/ /\ Playing
              /\ \/ current_tile.type = "TreasureChestTile"
                 \/ /\ current_tile.type = "FloorTile"
                    /\ current_tile.item # None
                    /\ current_tile.item.type # "Gold"
              /\ TakeCmd
           \/ \E choice \in 0..MAX_INVENTORY : ChestPick(choice))
       => /\ player'.inventory = player.inventory
          /\ grid' = grid]_vars

\* the inventory is full and the player stands on a floor tile that holds a potion
C16_Witness ==
    /\ Playing
    /\ Len(player.inventory) = MAX_INVENTORY
    /\ current_tile.type = "FloorTile"
    /\ current_tile.item = Potion

\* C17: moving the player onto a tile that holds Gold(amount) raises the
\* player's gold by exactly amount and leaves that tile without an item.
C17_MoveOntoGoldCollects ==
    [][\A d \in Directions :
        LET new_x == player.x + d[1]
            new_y == player.y + d[2]
        IN (/\ Playing
            /\ MoveCmd(d[1], d[2])
            /\ in_bounds(grid, new_x, new_y)
            /\ <<player'.x, player'.y>> = <<new_x, new_y>>
            /\ TileAt(grid, new_x, new_y).item # None
            /\ TileAt(grid, new_x, new_y).item.type = "Gold")
           => /\ player'.gold = player.gold + TileAt(grid, new_x, new_y).item.amount
              /\ TileAt(grid', new_x, new_y).item = None]_vars

\* C18: a take on a floor tile that holds Gold(amount) raises the player's
\* gold by exactly amount whatever the length of the inventory, leaves the
\* inventory as it was, and clears the tile's item.
C18_TakeGoldUnconditional ==
    (/\ Playing
     /\ current_tile.type = "FloorTile"
     /\ current_tile.item # None
     /\ current_tile.item.type = "Gold")
    => ~ENABLED (/\ TakeCmd
                 /\ ~(/\ player'.gold = player.gold + current_tile.item.amount
                      /\ player'.inventory = player.inventory
                      /\ TileAt(grid', player.x, player.y).item = None))

\* the inventory is at capacity, the player stands on gold, and a take collects it
C18_Witness ==
    /\ Playing
    /\ Len(player.inventory) = MAX_INVENTORY
    /\ current_tile.type = "FloorTile"
    /\ current_tile.item = Gold(1)
    /\ ENABLED (TakeCmd /\ player'.gold = player.gold + 1
                        /\ TileAt(grid', player.x, player.y).item = None)

\* the cells of g on which an enemy stands
EnemyCells(g) == {c \in Cells(g) : TileAt(g, c[1], c[2]).enemy # None}

\* a movement command that moves the player: not held by an enemy, and the
\* target is inside the map and walkable
MoveSucceeds(dx, dy) ==
    /\ Playing
    /\ ~Blocked(run_away, current_tile)
    /\ player.hp > 0
    /\ in_bounds(grid, player.x + dx, player.y + dy)
    /\ TileAt(grid, player.x + dx, player.y + dy).walkable
    /\ MoveCmd(dx, dy)

\* an enemy stands on a cell of the next grid only if one stood there or on
\* an orthogonal neighbour of it, and there are no more enemies than before
OnePassAtMost ==
    /\ Cardinality(EnemyCells(grid')) <= Cardinality(EnemyCells(grid))
    /\ \A c \in EnemyCells(grid') :
          \E b \in EnemyCells(grid) : Abs(c[1] - b[1]) + Abs(c[2] - b[2]) <= 1

\* C19 as stated: only a successful move relocates enemies, by one pass;
\* every other command, load among them, leaves every enemy where it is.
C19_OnlyMovesRelocate ==
    [][IF \E d \in Directions : MoveSucceeds(d[1], d[2])
       THEN level_index' = level_index => OnePassAtMost
       ELSE EnemyCells(grid') \subseteq EnemyCells(grid)]_vars

\* C19: only a successful move relocates enemies, by one pass that moves
\* each of them one step at most; fight, flee, take, use, save, blocked
\* moves, bumps and moves off the map leave every enemy on its cell, and a
\* load puts the enemies on the cells the loaded document has them on.
C19_MovesAndLoadsRelocate ==
    [][IF \E d \in Directions : MoveSucceeds(d[1], d[2])
       THEN level_index' = level_index => OnePassAtMost
       ELSE \/ EnemyCells(grid') \subseteq EnemyCells(grid)
            \/ /\ LoadCmd(TRUE)
               /\ \E result \in load_game(saveFile, default_hp) :
                     result.ok /\ grid' = result.grid]_vars

\* on the roam level the enemy has left its start cell and a save holds it there
C19_Witness ==
    /\ Playing
    /\ levels = RoamLevels
    /\ EnemyCells(grid) = {<<5, 0>>}
    /\ saveFile.kind = "dict"
    /\ \E result \in load_game(saveFile, default_hp) :
          result.ok /\ EnemyCells(result.grid) = {<<4, 0>>}

\* the cells an enemy on (x, y) may step onto when the cells of reserved were
\* taken earlier in the pass
PermittedCells(g, x, y, reserved) ==
    {c \in {<<x, y - 1>>, <<x, y + 1>>, <<x - 1, y>>, <<x + 1, y>>} :
        /\ 0 <= c[1] /\ c[1] < Len(g[1]) /\ 0 <= c[2] /\ c[2] < Len(g)
        /\ g[c[2] + 1][c[1] + 1].walkable
        /\ g[c[2] + 1][c[1] + 1].type # "TreasureChestTile"
        /\ g[c[2] + 1][c[1] + 1].item = None
        /\ g[c[2] + 1][c[1] + 1].enemy = None
        /\ c \notin reserved}

\* C20: in a scheduling pass an enemy that is not adjacent to the player
\* moves one orthogonal step at most, and only onto a cell that is in
\* bounds, walkable, not a treasure chest, free of items and enemies and
\* not reserved earlier in the pass; with no such cell it stays.
C20_StepOntoPermittedCell ==
    \A e \in list_enemies(grid) :
        Abs(e[1] - player.x) + Abs(e[2] - player.y) # 1 =>
            \A reserved \in SUBSET {surrounding_tiles(e[1], e[2])[i] : i \in 1..4} :
                LET st == [grid |-> grid, player |-> player, reserved |-> reserved,
                           over |-> FALSE]
                    permitted == PermittedCells(grid, e[1], e[2], reserved)
                IN /\ \A s \in EnemyStep(e, st) :
                        \/ s = st
                        \/ \E n \in permitted :
                              /\ EnemyCells(s.grid) =
                                     (EnemyCells(grid) \ {<<e[1], e[2]>>}) \cup {n}
                              /\ s.reserved = reserved \cup {n}
                              /\ s.player = player
                              /\ ~s.over
                   /\ permitted = {} => EnemyStep(e, st) = {st}

\* on the roam level the enemy has stepped from its start cell, next to the
\* potion, onto the cell next to the chest, with the player two cells or more away
C20_Witness ==
    /\ Playing
    /\ levels = RoamLevels
    /\ \E e \in list_enemies(grid) :
          /\ <<e[1], e[2]>> = <<5, 0>>
          /\ Abs(e[1] - player.x) + Abs(e[2] - player.y) > 1
          /\ PermittedCells(grid, e[1], e[2], {}) = {<<4, 0>>}

\* C21: an enemy evaluated while Manhattan-adjacent to the player stays where
\* it is or moves onto the player's cell and attacks in that step, the
\* player's hp falling by an amount in the enemy's damage range; it moves to
\* no other cell, and an enemy on the player's cell is not moved.
C21_AdjacentStaysOrLunges ==
    \A e \in list_enemies(grid) :
        \A reserved \in SUBSET {<<player.x, player.y>>} :
            LET st == [grid |-> grid, player |-> player, reserved |-> reserved,
                       over |-> FALSE]
                dist == Abs(e[1] - player.x) + Abs(e[2] - player.y)
            IN /\ dist = 1 =>
                    \A s \in EnemyStep(e, st) :
                        \/ s = st
                        \/ /\ EnemyCells(s.grid) =
                                  (EnemyCells(grid) \ {<<e[1], e[2]>>})
                                      \cup {<<player.x, player.y>>}
                           /\ TileAt(s.grid, player.x, player.y).enemy =
                                  [e[3] EXCEPT !.x = player.x, !.y = player.y]
                           /\ (player.hp - s.player.hp) \in
                                  e[3].attack_damage_low..e[3].attack_damage_high
                           /\ s.player = [player EXCEPT !.hp = s.player.hp]
               /\ dist = 0 => EnemyStep(e, st) = {st}

\* one enemy has lunged onto the player's cell and hurt the player, and
\* another one stands next to the player
C21_Witness ==
    /\ Playing
    /\ current_tile.enemy # None
    /\ player.hp < player.MAX_HP
    /\ \E e \in list_enemies(grid) : Abs(e[1] - player.x) + Abs(e[2] - player.y) = 1

\* what a movement command towards tile appends to the log when the tile
\* does not let the player in: the on-enter notification of a wall, or of an
\* exit while enemies remain
BumpNotice(tile, g) ==
    IF tile.type = "WallTile"
    THEN <<LogLine("You bump into a wall.", "", 0)>>
    ELSE <<LogLine("The exit is sealed by magic. {} enemy(ies) remain.", "",
                   enemies_remaining(g))>>

\* C22 as stated: every movement command whose target tile is in bounds but
\* not walkable, a wall or an exit while enemies remain, leaves the player
\* where it is, runs no enemy pass (no enemy changes cell, the player is not
\* attacked), and appends the target tile's on-enter notification to the log.
C22_BumpAsStated ==
    \A d \in Directions :
        LET new_x == player.x + d[1]
            new_y == player.y + d[2]
        IN (/\ Playing
            /\ in_bounds(grid, new_x, new_y)
            /\ ~TileAt(grid, new_x, new_y).walkable)
           => /\ ~ENABLED (MoveCmd(d[1], d[2]) /\ ~(player' = player /\ grid' = grid))
              /\ MoveLog(grid, player, run_away, d[1], d[2]) =
                     BumpNotice(TileAt(grid, new_x, new_y), grid)

\* C22 amended: the same for a movement command that is accepted, the
\* player not being held by an enemy on their tile; a command given while
\* held also leaves player and grid as they are, but appends the two lines
\* of the rejection and no on-enter notification.
C22_BumpKeepsPlaceAndNotifies ==
    \A d \in Directions :
        LET new_x == player.x + d[1]
            new_y == player.y + d[2]
        IN (/\ Playing
            /\ in_bounds(grid, new_x, new_y)
            /\ ~TileAt(grid, new_x, new_y).walkable)
           => /\ ~ENABLED (MoveCmd(d[1], d[2]) /\ ~(player' = player /\ grid' = grid))
              /\ MoveLog(grid, player, run_away, d[1], d[2]) =
                    IF current_tile.enemy # None /\ ~run_away
                    THEN <<LogLine("You can't move! There is a {} blocking your way.",
                                   current_tile.enemy.name, 0),
                           LogLine("Press [F] to fight, [R] to run away, or [U] to use an item.",
                                   "", 0)>>
                    ELSE BumpNotice(TileAt(grid, new_x, new_y), grid)

\* the player, free to move, stands next to an exit that is still sealed,
\* with an enemy one step away that a pass would let lunge
C22_Witness ==
    /\ Playing
    /\ ~Blocked(run_away, current_tile)
    /\ \E d \in Directions :
          /\ in_bounds(grid, player.x + d[1], player.y + d[2])
          /\ TileAt(grid, player.x + d[1], player.y + d[2]).type = "ExitTile"
          /\ ~TileAt(grid, player.x + d[1], player.y + d[2]).walkable
    /\ \E e \in list_enemies(grid) : Abs(e[1] - player.x) + Abs(e[2] - player.y) = 1

\* C23: a movement command whose target cell is out of bounds changes
\* nothing: the player, the grid and the fled flag are as before the command.
C23_OffMapChangesNothing ==
    \A d \in Directions :
        (Playing /\ ~in_bounds(grid, player.x + d[1], player.y + d[2]))
        => ~ENABLED (MoveCmd(d[1], d[2]) /\ ~UNCHANGED <<player, grid, run_away>>)

\* what C24 says the use of inventory entry i does: the entry leaves the
\* inventory, the others keep their order (a weapon that was equipped may
\* follow them), the item takes effect, and an enemy on the player's tile
\* then attacks once
UseEffect(i) ==
    LET item == player.inventory[i]
        rest == SubSeq(player.inventory, 1, i - 1)
                    \o SubSeq(player.inventory, i + 1, Len(player.inventory))
        healed == IF item.type # "Potion" THEN {player.hp}
                  ELSE IF player.hp = player.MAX_HP THEN {player.hp}
                  ELSE {Min(player.hp + r, player.MAX_HP) : r \in 3..player.MAX_HP}
        hit == IF current_tile.enemy = None THEN {0}
               ELSE current_tile.enemy.attack_damage_low..current_tile.enemy.attack_damage_high
    IN /\ SubSeq(player'.inventory, 1, Len(rest)) = rest
       /\ Len(player'.inventory) \in {Len(rest), Len(rest) + 1}
       /\ player'.weapon = IF item.type = "Potion" THEN player.weapon ELSE item
       /\ \E h \in healed : (h - player'.hp) \in hit
       /\ player' = [player EXCEPT !.inventory = player'.inventory, !.weapon = player'.weapon,
                                   !.hp = player'.hp]
       /\ grid' = grid

\* C24: a use with a valid index removes exactly the chosen item, the other
\* items keeping their order, and applies its effect; an enemy on the
\* player's tile then attacks the player once; Back (0), the only choice
\* with an empty inventory, changes nothing and brings no attack.
C24_UseConsumesChosen ==
    Playing =>
        /\ \A i \in 1..Len(player.inventory) : ~ENABLED (UseCmd(i) /\ ~UseEffect(i))
        /\ \A i \in 0..MAX_INVENTORY :
              (i = 0 \/ player.inventory = <<>>)
              => ~ENABLED (UseCmd(i) /\ ~UNCHANGED <<grid, player, status>>)

\* the dagger of the chest was equipped from the inventory with an enemy on
\* the tile: the potion of the chest is kept, and the player was hurt
C24_Witness ==
    /\ Playing
    /\ current_tile.enemy # None
    /\ player.weapon = Dagger
    /\ player.inventory = <<Potion>>
    /\ player.hp < player.MAX_HP

\* C25: when a weapon W is equipped while a weapon V is equipped, W becomes
\* the equipped weapon and on_use appends V to the inventory, which is one
\* longer for it; with no weapon equipped nothing is appended.  The use
\* command then takes W out of the inventory, V staying at the end.
C25_EquipReturnsOldWeapon ==
    Playing =>
        \A i \in 1..Len(player.inventory) :
            LET W == player.inventory[i]
                V == player.weapon
                q == WeaponOnUse(W, player)
            IN IsWeapon(W) =>
                /\ q.weapon = W
                /\ q = [player EXCEPT !.weapon = W, !.inventory = q.inventory]
                /\ IF V # None
                   THEN /\ q.inventory = player.inventory \o <<V>>
                        /\ Len(q.inventory) = Len(player.inventory) + 1
                   ELSE q.inventory = player.inventory
                /\ ~ENABLED (/\ UseCmd(i)
                             /\ ~(/\ player'.weapon = W
                                  /\ player'.inventory =
                                        RemoveAt(player.inventory, i)
                                            \o (IF V # None THEN <<V>> ELSE <<>>)))

\* after a potion and the sword were used: the sword is equipped and the
\* dagger that was equipped before it is in the inventory
C25_Witness ==
    /\ Playing
    /\ player.weapon = Sword
    /\ player.inventory = <<Dagger>>
    /\ player.hp = MAX_HP - 2

\* C29: a load accepts a document only if it is a keyed structure with
\* player, grid and level_index, the grid's rows and columns are positive,
\* play_time, when present, is a number, and the hp of the player it
\* installs lies within 0 and that player's max_hp.
C29_AcceptedDocumentIsSound ==
    \A result \in load_game(saveFile, default_hp) :
        result.ok =>
            /\ saveFile.kind = "dict"
            /\ {"player", "grid", "level_index"} \subseteq DOMAIN saveFile.data
            /\ saveFile.data.grid.rows > 0
            /\ saveFile.data.grid.columns > 0
            /\ ("play_time" \in DOMAIN saveFile.data => saveFile.data.play_time.type = "Num")
            /\ 0 <= result.player.hp
            /\ result.player.hp <= result.player.MAX_HP

\* C26: the player's hp never exceeds max_hp; a potion used below full
\* health sets hp to min(hp + r, max_hp) for an r of 3..max_hp, and a
\* potion used at full health leaves hp as it is.
C26_HpWithinMax ==
    /\ player.hp <= player.MAX_HP
    /\ PotionOnUse(player) =
          IF player.hp = player.MAX_HP THEN {player}
          ELSE {[player EXCEPT !.hp = IF player.hp + r < player.MAX_HP
                                       THEN player.hp + r ELSE player.MAX_HP] :
                   r \in 3..player.MAX_HP}

\* what C27 says of the step through an exit with levels left
NextLevelEntered ==
    /\ level_index' = level_index + 1
    /\ \E lvl \in load_level(levels[level_index + 1], level_index + 1, default_hp) :
          /\ grid' = lvl[1]
          /\ <<player'.x, player'.y>> = <<lvl[2], lvl[3]>>
    /\ player'.MAX_HP = player.MAX_HP + 5
    /\ player'.hp = player'.MAX_HP
    /\ player'.gold = player.gold
    /\ player'.inventory = player.inventory
    /\ player'.weapon = player.weapon
    /\ ~player'.at_exit
    /\ ~run_away'
    /\ status' = "playing"

\* C27: reaching an unlocked exit while levels remain raises the level index
\* by exactly 1, installs the next level's freshly built grid with the
\* player on its start cell, raises max_hp by exactly 5 and sets hp to it,
\* keeps gold, inventory and weapon, and clears the at_exit and fled flags.
C27_NextLevelTransition ==
    \A d \in Directions :
        LET new_x == player.x + d[1]
            new_y == player.y + d[2]
        IN (/\ Playing
            /\ ~Blocked(run_away, current_tile)
            /\ in_bounds(grid, new_x, new_y)
            /\ TileAt(grid, new_x, new_y).type = "ExitTile"
            /\ TileAt(grid, new_x, new_y).walkable
            /\ level_index < Len(levels))
           => ~ENABLED (MoveCmd(d[1], d[2]) /\ ~NextLevelEntered)

\* the second level was entered with the potion of the first in the
\* inventory, on its start cell and at full health
C27_Witness ==
    /\ Playing
    /\ level_index = 2
    /\ player.inventory = <<Potion>>
    /\ player.MAX_HP = MAX_HP + 5
    /\ player.hp = player.MAX_HP
    /\ \E lvl \in load_level(levels[2], 2, default_hp) :
          grid = lvl[1] /\ <<player.x, player.y>> = <<lvl[2], lvl[3]>>

\* the record highscores.json holds is not worse in b than in a
NotWorse(a, b) ==
    /\ b.best_score >= a.best_score
    /\ a.best_time # None => (b.best_time # None /\ b.best_time.v <= a.best_time.v)

\* C28: victory is declared only when the player exits the final level; the
\* best record then becomes best_score = max(old best_score, gold) and
\* best_time = min(old best_time, total play time), an absent old best_time
\* giving way to the total play time; from session to session best_score
\* never decreases and best_time never increases.
C28_VictoryMergesBest ==
    [][/\ (status # "victory" /\ status' = "victory") =>
            LET total_time == accumulated_play_time + elapsed
            IN /\ level_index = Len(levels)
               /\ player'.at_exit
               /\ TileAt(grid', player'.x, player'.y).type = "ExitTile"
               /\ <<player'.x, player'.y>> # <<player.x, player.y>>
               /\ best'.best_score = Max(best.best_score, player'.gold)
               /\ best'.best_time = IF best.best_time = None THEN Num(total_time)
                                    ELSE Num(Min(best.best_time.v, total_time))
               /\ load_best(bestFile') = best'
       /\ status' # "victory" => bestFile' = bestFile
       /\ NotWorse(load_best(bestFile), load_best(bestFile'))
       /\ NotWorse(load_best(bestFile), best')]_vars

\* a victory without gold at clock 0 over a record of 1 gold in 1 clock
\* unit: the score of the record is kept and its time is replaced
C28_Witness ==
    /\ status = "victory"
    /\ player.gold = 0
    /\ accumulated_play_time + elapsed = 0
    /\ best = [best_score |-> 1, best_time |-> Num(0)]
    /\ bestFile = save_best(1, Num(0))

\* the tile documents of a save document, and every item document in it
DocTiles(data) ==
    {data.grid.tiles[y][x] : <<x, y>> \in
        UNION {{<<x, y>> : x \in DOMAIN data.grid.tiles[y]} : y \in DOMAIN data.grid.tiles}}

DocItems(data) ==
    LET tiles == DocTiles(data)
        enemies == {t.enemy : t \in {t \in tiles : t.enemy # None}}
    IN {t.item : t \in {t \in tiles : t.item # None}}
       \cup UNION {{e.item_drop[i] : i \in DOMAIN e.item_drop} : e \in enemies}
       \cup {data.player.inventory[i] : i \in DOMAIN data.player.inventory}
       \cup (IF data.player.weapon # None THEN {data.player.weapon} ELSE {})

\* C30: a load of a document with a tile of unknown type installs a floor
\* tile in its cell, and with an enemy of unknown type a base Enemy that
\* carries the document's field values, the load succeeding; a document
\* with an item of unknown type on a tile, in the inventory, as the weapon
\* or in an enemy's drop makes the load fail and leaves the state as it is.
C30_UnknownTypeTags ==
    validate_save(saveFile) =>
        LET data == saveFile.data
            results == load_game(saveFile, default_hp)
        IN IF \E it \in DocItems(data) : it.type \notin KnownItemTypes
           THEN /\ results = {NoState}
                /\ Playing => ~ENABLED (/\ LoadCmd(TRUE)
                                        /\ ~UNCHANGED <<grid, player, level_index, run_away,
                                                        accumulated_play_time, elapsed>>)
           ELSE \A result \in results :
                   /\ result.ok
                   /\ \A y \in DOMAIN data.grid.tiles : \A x \in DOMAIN data.grid.tiles[y] :
                         LET d == data.grid.tiles[y][x]
                             tile == result.grid[y][x]
                         IN /\ d.type \notin KnownTileTypes => tile.type = "FloorTile"
                            /\ (d.enemy # None /\ d.enemy.type \notin KnownEnemyTypes) =>
                                  /\ tile.enemy # None
                                  /\ tile.enemy.type = "Enemy"
                                  /\ \A k \in {"name", "symbol", "x", "y", "hp",
                                               "attack_damage_low", "attack_damage_high",
                                               "can_move", "engage_chance"} :
                                        tile.enemy[k] = d.enemy[k]
                                  /\ tile.enemy.item_drop = items_from_dicts(d.enemy.item_drop)

\* a document with a tile of unknown type was loaded: its cell holds a floor
\* tile with the document's symbol; game.json now holds a document with an
\* enemy of unknown type
C30_Witness ==
    /\ Playing
    /\ \E c \in Cells(grid) :
          /\ TileAt(grid, c[1], c[2]).type = "FloorTile"
          /\ TileAt(grid, c[1], c[2]).symbol = "#"
    /\ saveFile.kind = "dict"
    /\ validate_save(saveFile)
    /\ \E t \in DocTiles(saveFile.data) : t.enemy # None /\ t.enemy.type = "Dragon"

\* C31: after a successful load the controller's behaviour is determined by
\* the loaded document alone: whether movement is blocked, and whether
\* fight and flee are accepted, is what it is for a session that loads the
\* same document right after its start, when the fled flag is not set.
C31_LoadDecidesEncounter ==
    Playing =>
        \A result \in load_game(saveFile, default_hp) :
            result.ok =>
                ~ENABLED (/\ LoadCmd(TRUE)
                          /\ grid' = result.grid
                          /\ player' = result.player
                          /\ \/ run_away' # FALSE
                             \/ Blocked(run_away', TileAt(grid', player'.x, player'.y))
                                   # Blocked(FALSE, TileAt(grid', player'.x, player'.y)))

\* the cells of g that are treasure chests
ChestCells(g) == {c \in Cells(g) : TileAt(g, c[1], c[2]).type = "TreasureChestTile"}

\* C32: a chest holds one weapon and one potion when its level is built;
\* within a level no command adds an item to a chest and a take removes the
\* chosen item, so that the contents of a chest only shrink and an emptied
\* chest stays empty.
C32_ChestOnlyShrinks ==
    [][level_index' = level_index =>
        \A c \in ChestCells(grid) :
            LET before == TileAt(grid, c[1], c[2]).treasure
                after == TileAt(grid', c[1], c[2]).treasure
            IN /\ c \in ChestCells(grid')
               /\ Len(after) <= Len(before)
               /\ \A i \in DOMAIN after : \E j \in DOMAIN before : after[i] = before[j]]_vars

\* C33: the number of enemies on the grid never decreases during an enemy
\* pass; an enemy leaves the grid only when a fight defeats it through
\* take_damage, also when the player stands on a cell that holds an enemy
\* while another enemy is adjacent.
C33_PassKeepsEnemies ==
    [][(level_index' = level_index /\ enemies_remaining(grid') < enemies_remaining(grid))
       => /\ FightCmd
          /\ current_tile.enemy # None
          /\ TileAt(grid', player.x, player.y).enemy = None
          /\ enemies_remaining(grid') = enemies_remaining(grid) - 1
          /\ <<player'.x, player'.y>> = <<player.x, player.y>>]_vars

\* C34: in the pass that follows a move the enemies are evaluated one after
\* another, each once: every enemy ends the pass on a cell of its own (as
\* many cells hold an enemy after the pass as before it), none has gone
\* further than one step, and one enemy at most has moved onto the player's
\* cell and attacked.
C34_PassIsSequential ==
    [][((\E d \in Directions : MoveSucceeds(d[1], d[2])) /\ level_index' = level_index)
       => /\ Cardinality(EnemyCells(grid')) = Cardinality(EnemyCells(grid))
          /\ \A c \in EnemyCells(grid') :
                \E b \in EnemyCells(grid) : Abs(c[1] - b[1]) + Abs(c[2] - b[2]) <= 1
          /\ \/ player'.hp = player.hp
             \/ \E e \in list_enemies(grid) :
                   player.hp - player'.hp <= e[3].attack_damage_high]_vars

\* C35: in every reachable state no tile holds both an item and an enemy,
\* no treasure chest holds an enemy, and no tile that is not walkable holds
\* an enemy.
C35_EnemyTilesAreBare ==
    \A c \in Cells(grid) :
        LET tile == TileAt(grid, c[1], c[2])
        IN tile.enemy # None =>
              /\ tile.item = None
              /\ tile.type # "TreasureChestTile"
              /\ tile.walkable

\* ---- documents whose player entry no session writes ----
\* Play on the levels of SpecPersist while game.json is replaced from
\* outside by documents that validate_save accepts although save_game never
\* writes them: the player with hp 0, and the player on the cell of the wall.
StrayFiles ==
    {PriorSave,
     [PriorSave EXCEPT !.data.player.hp = 0],
     [PriorSave EXCEPT !.data.player.x = 2]}

ExternalStray ==
    /\ saveFile' \in StrayFiles
    /\ UNCHANGED <<grid, player, level_index, run_away, accumulated_play_time, elapsed,
                   current_play_time, prompt, best, status, levels, default_hp, bestFile>>

InitStray == InitWith(PersistLevels)

NextStray ==
    \/ \E d \in Directions : MoveCmd(d[1], d[2])
    \/ TakeCmd
    \/ \E choice \in 0..MAX_INVENTORY : UseCmd(choice)
    \/ FightCmd
    \/ \E confirm \in BOOLEAN : LoadCmd(confirm)
    \/ ExternalStray

SpecStray == InitStray /\ [][NextStray]_vars

\* C36: in every state in which the controller accepts a command, also
\* right after a successful load, the player's hp is 1 at least.
C36_AliveWhileCommanded == Playing => player.hp >= 1

\* C37: in every reachable state, after any command, level transition or
\* successful load, the player's position is inside the grid and on a
\* walkable tile.
C37_PlayerOnWalkableCell ==
    /\ in_bounds(grid, player.x, player.y)
    /\ TileAt(grid, player.x, player.y).walkable

\* ---- the shape of the shipped maps ----
\* The three shipped maps cut down to a few cells, keeping their outline:
\* levels one and two are rectangles inside a wall, and in level three the
\* row of the start mark is one character shorter than the other rows and
\* ends in the wall, as row 21 of MAP_TEXT_LEVEL_3 does (65 characters
\* against 66), with the wall above and below the missing cell.
ShippedLevels ==
    << << <<"#", "#", "#", "#", "#">>,
          <<"#", "@", "E", "X", "#">>,
          <<"#", "#", "#", "#", "#">> >>,
       << <<"#", "#", "#", "#", "#">>,
          <<"#", "@", "E", "X", "#">>,
          <<"#", "#", "#", "#", "#">> >>,
       << <<"#", "#", "#", "#", "#">>,
          <<"#", ".", "E", "X", "#">>,
          <<"#", "@", ".", "#">>,
          <<"#", "#", "#", "#", "#">> >> >>

InitShipped == InitWith(ShippedLevels)

NextShipped ==
    \/ \E d \in Directions : MoveCmd(d[1], d[2])
    \/ TakeCmd
    \/ FightCmd

SpecShipped == InitShipped /\ [][NextShipped]_vars

\* C38: every grid built by load_level from the shipped level maps is
\* rectangular: each row is as long as row 0, so every coordinate that
\* in_bounds accepts holds a tile.
C38_GridsAreRectangular ==
    /\ \A y \in 1..Len(grid) : Len(grid[y]) = Len(grid[1])
    /\ \A y \in 0..(Len(grid) - 1) : \A x \in 0..(Len(grid[1]) - 1) :
          in_bounds(grid, x, y) => <<x, y>> \in Cells(grid)

\* ---- how a session ends ----
\* The sessions of SpecRecord with the quit command and the keyboard
\* interrupt added: a session ends in victory, in game over, by quitting or
\* by the interrupt, and the program is started again afterwards.
NextEnding ==
    \/ \E d \in Directions : MoveCmd(d[1], d[2])
    \/ TakeCmd
    \/ FightCmd
    \/ QuitCmd
    \/ InterruptCmd
    \/ Tick
    \/ NewSession

SpecEnding == InitRecord /\ [][NextEnding]_vars

\* C39: the best record, in best.json and in memory, changes only in the
\* step that ends the session in victory; game over, quitting and the
\* keyboard interrupt leave best_score and best_time as they were.
C39_RecordOnlyAtVictory ==
    [][(bestFile' # bestFile \/ best' # best)
          => (status = "playing" /\ status' = "victory")]_vars

\* a session has ended without a victory while the player carried more gold
\* than the best score
C39_Witness ==
    /\ status \in {"gameover", "quit", "interrupted"}
    /\ player.gold > best.best_score

====
